---------------------------- MODULE Spec2Model ----------------------------
(***************************************************************************)
(* A model of the pixel operations of Ai-Pixel-Dreamer (src/App.tsx):      *)
(*   - PixelEditor.floodFill   (fill-bucket tool),                         *)
(*   - PixelEditor.removeColor (magic-wand tool),                          *)
(*   - PixelEditor.draw, handleMouseDown, handleMouseUp (pen and eraser),  *)
(*   - App.handleAssembleSheet (sprite-sheet assembly),                    *)
(*   - App.handleGenerate, handleEdit, handleAnimate,                      *)
(*     handleBackgroundRemoval and handleFileUpload (the requests and the  *)
(*     image list of the sprite-sheet panel).                              *)
(*                                                                         *)
(* The canvas bitmap is modelled as the ImageData byte array the handlers  *)
(* work on: a function from 0 .. 4*width*height-1 to 0 .. 255, pixel       *)
(* (x, y) occupying the four bytes from (y*width + x)*4.  getImageData and *)
(* putImageData are taken to hand that array over unchanged, and so are    *)
(* drawImage and the canvas of the sheet for the pixels of an image.       *)
(*                                                                         *)
(* SpecFill, SpecMask and SpecSheet follow the handlers as the page calls  *)
(* them; SpecSprites follows the sheet pixel by pixel and through a failed *)
(* load; SpecCalls calls floodFill and removeColor with any coordinates    *)
(* and any colour string; SpecSteps follows the loop of floodFill          *)
(* iteration by iteration, SpecAnyOrder with the stack read in any order;  *)
(* SpecCells is SpecSheet with shorter lists; SpecExact fills images whose *)
(* colours are one unit apart; SpecPen                                     *)
(* follows the mouse events of the canvas; SpecRequests follows the        *)
(* asynchronous handlers of App await by await, SpecUploads the uploads,   *)
(* adds and removes of the sprite-sheet list.                              *)
(***************************************************************************)
EXTENDS Integers, Sequences, FiniteSets, TLC

VARIABLES
    width, height,   \* canvasRef.current.width / .height
    data,            \* the canvas bitmap, as ImageData.data
    color,           \* PixelEditor state `color`: a "#rrggbb" string, as a sequence of characters
    before,          \* the bitmap as it was when the last canvas handler started
    lastOp,          \* the last canvas handler that ran, with its arguments
    fillStack,       \* floodFill's local `pixelStack` while its loop runs, <<>> otherwise
    fillPc,          \* position of floodFill: "idle", or "loop" (at the while of line 1211)
    fillMatched,     \* how often the loop has run lines 1232-1241 for each pixel since floodFill was called
    tool,            \* PixelEditor state `tool`
    isDrawing,       \* PixelEditor state `isDrawing`
    sheetImages,     \* App state `sheetImages`: the images to assemble (decoded size of each, pixels where followed)
    sheetColumns,    \* App state `sheetColumns`
    sheetSpacing,    \* App state `sheetSpacing`
    sheetHorizontalAlignment,
    sheetVerticalAlignment,
    isGenerating,    \* App state `isGenerating`
    sheetPc,         \* position of handleAssembleSheet: "idle", or "loading" (at the await of line 298)
    generatedImage,  \* App state `generatedImage`: NoImage, or the sheet last assembled
    error,           \* App state `error`: NoError or a message
    lastSheetCall,   \* the way handleAssembleSheet last returned, "none" before any call
    currentMode,     \* App state `currentMode`
    inFlight         \* the asynchronous handlers that have started and not returned, oldest first

editorVars == <<width, height, data, color, before, lastOp, fillStack, fillPc,
                fillMatched, tool, isDrawing>>
sheetVars == <<sheetImages, sheetColumns, sheetSpacing, sheetHorizontalAlignment,
               sheetVerticalAlignment, isGenerating, sheetPc, generatedImage,
               error, lastSheetCall, currentMode, inFlight>>
vars == <<width, height, data, color, before, lastOp, fillStack, fillPc,
          fillMatched, tool, isDrawing,
          sheetImages, sheetColumns, sheetSpacing, sheetHorizontalAlignment,
          sheetVerticalAlignment, isGenerating, sheetPc, generatedImage,
          error, lastSheetCall, currentMode, inFlight>>

---------------------------------------------------------------------------
(* Bounds of the model.                                                    *)

\* floodFill runs on every canvas of at most this many pixels (width*height)
MaxFillPixels == 9
\* ... and of at most this width and this height
MaxFillSide == 4
\* removeColor runs on every canvas of at most this many pixels
MaxMaskPixels == 3
\* ... and of at most this width and this height
MaxMaskSide == 3
\* floodFill and removeColor are called with any coordinates on every
\* canvas of at most this many pixels
MaxExactPixels == 4
MaxExactSide == 4
MaxRequests == 2
MaxUploads == 2
MaxFiles == 2
MaxListed == 2
MaxPenPixels == 2
MaxPenSide == 2
MaxCallPixels == 4
\* ... and of at most this width and this height
MaxCallSide == 2
\* the loop of floodFill is followed step by step on every canvas of at
\* most this many pixels
MaxStepPixels == 6
\* ... and of at most this width and this height
MaxStepSide == 3
\* the entries of the stack are taken in any order on every canvas of at
\* most this many pixels
MaxOrderPixels == 4
\* ... and of at most this width and this height
MaxOrderSide == 2
\* at most this many images in sheetImages
MaxImages == 5
\* sheetColumns ranges over 1 .. MaxColumns
MaxColumns == 3
\* sheetSpacing ranges over 0 .. MaxSpacing
MaxSpacing == 2
\* where the pixels of the sheet are followed: at most this many images,
MaxCellImages == 4
MaxCellColumns == 3
MaxCellSpacing == 1
MaxSprites == 3
\* ... sheetColumns over 1 .. MaxSpriteColumns,
MaxSpriteColumns == 2
\* ... and sheetSpacing over 0 .. MaxSpriteSpacing
MaxSpriteSpacing == 1

---------------------------------------------------------------------------
(* JavaScript values.                                                      *)

\* the result of parseInt on a string with no leading hex digit
NaN == -1
\* the value of a typed-array read outside the array
Undefined == -2

\* a === b on numbers-or-undefined: NaN is not equal to anything, itself included
StrictEq(a, b) == a # NaN /\ b # NaN /\ a = b

\* what a Uint8ClampedArray stores when v is assigned to one of its elements
ToUint8Clamped(v) ==
    IF v = NaN \/ v = Undefined THEN 0
    ELSE IF v < 0 THEN 0
    ELSE IF v > 255 THEN 255
    ELSE v

\* data[i], undefined outside the array
Read(d, i) == IF i \in DOMAIN d THEN d[i] ELSE Undefined

\* data[i] = v: a write outside the array is ignored
Write(d, i, v) == IF i \in DOMAIN d THEN [d EXCEPT ![i] = ToUint8Clamped(v)] ELSE d

\* Math.abs
Abs(n) == IF n < 0 THEN 0 - n ELSE n

---------------------------------------------------------------------------
(* Hex colours: hexToRgb, src/App.tsx 1187-1192.                           *)

\* the value of one hexadecimal digit character, NaN for any other character
HexVal(c) ==
    CASE c = "0" -> 0 [] c = "1" -> 1 [] c = "2" -> 2 [] c = "3" -> 3
      [] c = "4" -> 4 [] c = "5" -> 5 [] c = "6" -> 6 [] c = "7" -> 7
      [] c = "8" -> 8 [] c = "9" -> 9
      [] c \in {"a", "A"} -> 10 [] c \in {"b", "B"} -> 11
      [] c \in {"c", "C"} -> 12 [] c \in {"d", "D"} -> 13
      [] c \in {"e", "E"} -> 14 [] c \in {"f", "F"} -> 15
      [] OTHER -> NaN

\* String.prototype.slice(from, to) for 0 <= from <= to, on a sequence of characters
Slice(s, from, to) ==
    SubSeq(s, from + 1, IF to < Len(s) THEN to ELSE Len(s))

\* the value of the longest prefix of s made of hex digits, acc being the
\* value of the digits read so far (NaN when none has been read)
RECURSIVE HexPrefix(_, _)
HexPrefix(s, acc) ==
    IF s = <<>> \/ HexVal(Head(s)) = NaN THEN acc
    ELSE HexPrefix(Tail(s), (IF acc = NaN THEN 0 ELSE acc) * 16 + HexVal(Head(s)))

\* parseInt(s, 16): an optional sign, an optional 0x, then the longest prefix of hex digits
ParseInt16(s) ==
    LET neg == s # <<>> /\ Head(s) = "-"
        s1 == IF s # <<>> /\ Head(s) \in {"-", "+"} THEN Tail(s) ELSE s
        s2 == IF Len(s1) >= 2 /\ s1[1] = "0" /\ s1[2] \in {"x", "X"}
              THEN SubSeq(s1, 3, Len(s1)) ELSE s1
        v  == HexPrefix(s2, NaN)
    IN  IF v = NaN THEN NaN ELSE IF neg THEN 0 - v ELSE v

hexToRgb(hex) ==
    [r |-> ParseInt16(Slice(hex, 1, 3)),
     g |-> ParseInt16(Slice(hex, 3, 5)),
     b |-> ParseInt16(Slice(hex, 5, 7))]

---------------------------------------------------------------------------
(* floodFill, src/App.tsx 1177-1246.                                       *)

\* a variant of fillA: the fill is written slightly translucent
fillA_NotOpaque == 255 - 1

\* const fillA = 255
fillA == 255

\* the four bytes of the pixel starting at byte index pos
PixelAt(d, pos) == <<Read(d, pos), Read(d, pos + 1), Read(d, pos + 2), Read(d, pos + 3)>>

\* a variant of MatchesTarget: r, g and b are compared with the tolerance of
\* the magic wand, and alpha need only be non-zero
MatchesTarget_Tolerant(d, pixelPos, target) ==
    /\ Abs(Read(d, pixelPos) - target[1]) <= 15
    /\ Abs(Read(d, pixelPos + 1) - target[2]) <= 15
    /\ Abs(Read(d, pixelPos + 2) - target[3]) <= 15
    /\ Read(d, pixelPos + 3) > 0

\* the test of lines 1225-1230: the pixel at pixelPos matches the target colour
MatchesTarget(d, pixelPos, target) ==
    /\ StrictEq(Read(d, pixelPos), target[1])
    /\ StrictEq(Read(d, pixelPos + 1), target[2])
    /\ StrictEq(Read(d, pixelPos + 2), target[3])
    /\ StrictEq(Read(d, pixelPos + 3), target[4])

\* a variant of FillPixel: the fill colour is blended half and half with
\* the pixel's old colour instead of replacing it
FillPixel_Blend(d, pixelPos, fillColor) ==
    Write(Write(Write(Write(d, pixelPos, (Read(d, pixelPos) + fillColor.r) \div 2),
                      pixelPos + 1, (Read(d, pixelPos + 1) + fillColor.g) \div 2),
                pixelPos + 2, (Read(d, pixelPos + 2) + fillColor.b) \div 2),
          pixelPos + 3, (Read(d, pixelPos + 3) + 255) \div 2)

\* lines 1232-1235: write the fill colour into the pixel at pixelPos
FillPixel(d, pixelPos, fillColor) ==
    Write(Write(Write(Write(d, pixelPos, fillColor.r),
                      pixelPos + 1, fillColor.g),
                pixelPos + 2, fillColor.b),
          pixelPos + 3, fillA)

\* a variant of Neighbours: the four diagonal neighbours are pushed as well
Neighbours_WithDiagonals(x, y) ==
    <<(<<x + 1, y>>), (<<x - 1, y>>), (<<x, y + 1>>), (<<x, y - 1>>),
      (<<x + 1, y + 1>>), (<<x - 1, y - 1>>), (<<x - 1, y + 1>>), (<<x + 1, y - 1>>)>>

\* lines 1238-1241: the neighbours of (x, y), in the order they are pushed
Neighbours(x, y) == <<(<<x + 1, y>>), (<<x - 1, y>>), (<<x, y + 1>>), (<<x, y - 1>>)>>

\* a variant of OutOfBounds: the column just right of the buffer passes
OutOfBounds_RightEdgeOpen(x, y, w, h) == x < 0 \/ x > w \/ y < 0 \/ y >= h

\* line 1219: the boundary check
OutOfBounds(x, y, w, h) == x < 0 \/ x >= w \/ y < 0 \/ y >= h

\* lines 1219 and 1225-1230: the iteration that pops newPos goes on to lines
\* 1232-1241, where the pixel is written and its neighbours are pushed
Fills(d, newPos, target, w, h) ==
    /\ ~OutOfBounds(newPos[1], newPos[2], w, h)
    /\ MatchesTarget(d, (newPos[2] * w + newPos[1]) * 4, target)

\* a variant of FillIter: an entry that is not filled goes back to the
\* bottom of the stack
FillIter_Requeues(d, pixelStack, target, fillColor, w, h) ==
    LET newPos == pixelStack[Len(pixelStack)]
        rest == SubSeq(pixelStack, 1, Len(pixelStack) - 1)
        x == newPos[1]
        y == newPos[2]
        pixelPos == (y * w + x) * 4
    IN  IF OutOfBounds(x, y, w, h) THEN [data |-> d, pixelStack |-> <<newPos>> \o rest]
        ELSE IF MatchesTarget(d, pixelPos, target)
        THEN [data |-> FillPixel(d, pixelPos, fillColor),
              pixelStack |-> rest \o Neighbours(x, y)]
        ELSE [data |-> d, pixelStack |-> <<newPos>> \o rest]

\* a variant of FillIter: the neighbours are pushed only while the stack
\* holds no more than four entries with them
FillIter_BoundedStack(d, pixelStack, target, fillColor, w, h) ==
    LET newPos == pixelStack[Len(pixelStack)]
        rest == SubSeq(pixelStack, 1, Len(pixelStack) - 1)
        x == newPos[1]
        y == newPos[2]
        pixelPos == (y * w + x) * 4
    IN  IF OutOfBounds(x, y, w, h) THEN [data |-> d, pixelStack |-> rest]
        ELSE IF MatchesTarget(d, pixelPos, target)
        THEN [data |-> FillPixel(d, pixelPos, fillColor),
              pixelStack |-> IF Len(rest) + 4 > 4 THEN rest
                             ELSE rest \o Neighbours(x, y)]
        ELSE [data |-> d, pixelStack |-> rest]

\* one iteration of the while loop of lines 1211-1243, on a non-empty stack:
\* the bitmap and the stack after it
FillIter(d, pixelStack, target, fillColor, w, h) ==
    LET newPos == pixelStack[Len(pixelStack)]
        rest == SubSeq(pixelStack, 1, Len(pixelStack) - 1)
        x == newPos[1]
        y == newPos[2]
        pixelPos == (y * w + x) * 4
    IN  IF OutOfBounds(x, y, w, h) THEN [data |-> d, pixelStack |-> rest]
        ELSE IF MatchesTarget(d, pixelPos, target)
        THEN [data |-> FillPixel(d, pixelPos, fillColor),
              pixelStack |-> rest \o Neighbours(x, y)]
        ELSE [data |-> d, pixelStack |-> rest]

\* the while loop of lines 1211-1243, run until the stack is empty
RECURSIVE FillLoop(_, _, _, _, _, _)
FillLoop(d, pixelStack, target, fillColor, w, h) ==
    IF pixelStack = <<>> THEN d
    ELSE LET st == FillIter(d, pixelStack, target, fillColor, w, h)
         IN  FillLoop(st.data, st.pixelStack, target, fillColor, w, h)

\* a variant of SameColor: the return of line 1205 is never taken
SameColor_Never(target, fillColor) == FALSE

\* lines 1203-1206: the fill colour is exactly the seed pixel's colour
SameColor(target, fillColor) ==
    /\ StrictEq(target[1], fillColor.r)
    /\ StrictEq(target[2], fillColor.g)
    /\ StrictEq(target[3], fillColor.b)
    /\ StrictEq(target[4], fillA)

\* the bitmap after floodFill(startX, startY) with the current colour hex
floodFill(d, w, h, startX, startY, hex) ==
    LET targetIndex == (startY * w + startX) * 4
        target == PixelAt(d, targetIndex)
        fillColor == hexToRgb(hex)
    IN  IF SameColor(target, fillColor) THEN d
        ELSE FillLoop(d, <<(<<startX, startY>>)>>, target, fillColor, w, h)

---------------------------------------------------------------------------
(* removeColor, src/App.tsx 1141-1175.                                     *)

\* const tolerance = 15
tolerance == 15

\* a variant of WithinTolerance: the bound is exclusive
WithinTolerance_Strict(v, ref, tol) == ref # Undefined /\ Abs(v - ref) < tol

\* Math.abs(v - ref) <= tol, false when ref is undefined (the difference is NaN)
WithinTolerance(v, ref, tol) == ref # Undefined /\ Abs(v - ref) <= tol

\* a variant of MaskMatches: only fully opaque pixels match
MaskMatches_OpaqueOnly(d, i, r, g, b) ==
    /\ WithinTolerance(d[i], r, tolerance)
    /\ WithinTolerance(d[i + 1], g, tolerance)
    /\ WithinTolerance(d[i + 2], b, tolerance)
    /\ d[i + 3] = 255

\* the test of lines 1165-1168 on the pixel starting at byte index i
MaskMatches(d, i, r, g, b) ==
    /\ WithinTolerance(d[i], r, tolerance)
    /\ WithinTolerance(d[i + 1], g, tolerance)
    /\ WithinTolerance(d[i + 2], b, tolerance)
    /\ d[i + 3] > 0

\* a variant of MaskLoop: a matching pixel is cleared on all four channels
RECURSIVE MaskLoop_ClearsPixel(_, _, _, _, _, _)
MaskLoop_ClearsPixel(d, i, len, r, g, b) ==
    IF i >= len THEN d
    ELSE MaskLoop_ClearsPixel(
             IF  /\ WithinTolerance(d[i], r, tolerance)
                 /\ WithinTolerance(d[i + 1], g, tolerance)
                 /\ WithinTolerance(d[i + 2], b, tolerance)
                 /\ d[i + 3] > 0
             THEN Write(Write(Write(Write(d, i, 0), i + 1, 0), i + 2, 0), i + 3, 0)
             ELSE d,
             i + 4, len, r, g, b)

\* a variant of MaskLoop: a matching pixel loses half of its alpha
RECURSIVE MaskLoop_HalvesAlpha(_, _, _, _, _, _)
MaskLoop_HalvesAlpha(d, i, len, r, g, b) ==
    IF i >= len THEN d
    ELSE MaskLoop_HalvesAlpha(
             IF  /\ WithinTolerance(d[i], r, tolerance)
                 /\ WithinTolerance(d[i + 1], g, tolerance)
                 /\ WithinTolerance(d[i + 2], b, tolerance)
                 /\ d[i + 3] > 0
             THEN Write(d, i + 3, d[i + 3] \div 2)
             ELSE d,
             i + 4, len, r, g, b)

\* the for loop of lines 1164-1172, from byte index i to the end of the array
RECURSIVE MaskLoop(_, _, _, _, _, _)
MaskLoop(d, i, len, r, g, b) ==
    IF i >= len THEN d
    ELSE MaskLoop(IF MaskMatches(d, i, r, g, b) THEN Write(d, i + 3, 0) ELSE d,
                  i + 4, len, r, g, b)

\* a variant of removeColor: the scan starts at the seed pixel instead of
\* the first pixel of the bitmap
removeColor_FromSeed(d, w, h, startX, startY) ==
    LET targetIndex == (startY * w + startX) * 4
    IN  IF Read(d, targetIndex + 3) = 0 THEN d
        ELSE MaskLoop(d, targetIndex, w * h * 4, Read(d, targetIndex),
                      Read(d, targetIndex + 1), Read(d, targetIndex + 2))

\* a variant of removeColor: the early return on a transparent seed is missing
removeColor_NoGuard(d, w, h, startX, startY) ==
    LET targetIndex == (startY * w + startX) * 4
    IN  MaskLoop(d, 0, w * h * 4, Read(d, targetIndex),
                 Read(d, targetIndex + 1), Read(d, targetIndex + 2))

\* a variant of removeColor: the seed pixel itself keeps its alpha
removeColor_SparesSeed(d, w, h, startX, startY) ==
    LET targetIndex == (startY * w + startX) * 4
        a == Read(d, targetIndex + 3)
    IN  IF a = 0 THEN d
        ELSE Write(MaskLoop(d, 0, w * h * 4, Read(d, targetIndex),
                            Read(d, targetIndex + 1), Read(d, targetIndex + 2)),
                   targetIndex + 3, a)

\* the bitmap after removeColor(startX, startY)
removeColor(d, w, h, startX, startY) ==
    LET targetIndex == (startY * w + startX) * 4
        r == Read(d, targetIndex)
        g == Read(d, targetIndex + 1)
        b == Read(d, targetIndex + 2)
        a == Read(d, targetIndex + 3)
    IN  IF a = 0 THEN d
        ELSE MaskLoop(d, 0, w * h * 4, r, g, b)

---------------------------------------------------------------------------
(* The pixel editor: its canvas and the two click tools.                   *)

\* a bitmap of w*h pixels, pixel number p (row-major) being px[p]
Bitmap(px, w, h) == [i \in 0 .. (w * h * 4 - 1) |-> px[i \div 4][(i % 4) + 1]]

\* the canvas sizes of at most n pixels and of sides at most side
Sizes(n, side) == {wh \in (1 .. side) \X (1 .. side) : wh[1] * wh[2] <= n}

\* the pixel (x, y) of bitmap d of width w
Pixel(d, w, x, y) == PixelAt(d, (y * w + x) * 4)

\* the coordinates of the pixels of a w-by-h canvas
Coords(w, h) == (0 .. (w - 1)) \X (0 .. (h - 1))

NoOp == [op |-> "none"]

\* pixels a loaded image holds on the canvas the fill bucket is tried on
Black == <<0, 0, 0, 255>>
Red == <<255, 0, 0, 255>>
Clear == <<0, 0, 0, 0>>
FillPalette == {Black, Clear}

\* values the <input type="color"> of line 1326 gives to `color`
ColorBlack == <<"#", "0", "0", "0", "0", "0", "0">>
ColorRed == <<"#", "f", "f", "0", "0", "0", "0">>
ColorValues == {ColorBlack, ColorRed}

\* pixels a loaded image holds on the canvas the magic wand is tried on
Grey == <<100, 100, 100, 255>>
GreyR14 == <<114, 100, 100, 255>>
GreyR15 == <<115, 100, 100, 255>>
GreyR16 == <<116, 100, 100, 255>>
GreyG16 == <<100, 116, 100, 255>>
GreyB16 == <<100, 100, 84, 255>>
GreyHalf == <<100, 100, 100, 128>>
GreyR101 == <<101, 100, 100, 255>>
GreyG99 == <<100, 99, 100, 255>>
GreyB101 == <<100, 100, 101, 255>>
GreyA254 == <<100, 100, 100, 254>>
ExactPalette == {Grey, GreyR101, GreyG99, GreyB101, GreyA254}
MaskPalette == {Grey, GreyR14, GreyR15, GreyR16, GreyG16, GreyB16, GreyHalf, Clear, Black}

\* useState<string | null>(null), line 53
NoImage == [kind |-> "none"]

\* useState<string | null>(null), line 55
NoError == "null"

\* the sheet assembler at rest, for the specifications of the pixel editor
SheetIdle ==
    /\ sheetImages = <<>>
    /\ sheetColumns = 4
    /\ sheetSpacing = 0
    /\ sheetHorizontalAlignment = "center"
    /\ sheetVerticalAlignment = "bottom"
    /\ isGenerating = FALSE
    /\ sheetPc = "idle"
    /\ generatedImage = NoImage
    /\ error = NoError
    /\ lastSheetCall = "none"
    /\ currentMode = "TEXT_TO_SPRITE"
    /\ inFlight = <<>>

\* an image of at most n pixels, of sides at most side, over palette is on
\* the canvas (the onload of lines 1112-1118); the colour is the initial one
\* of line 1101
EditorInit(n, side, palette) ==
    /\ \E wh \in Sizes(n, side) :
          /\ width = wh[1]
          /\ height = wh[2]
          /\ \E px \in [0 .. (wh[1] * wh[2] - 1) -> palette] :
                data = Bitmap(px, wh[1], wh[2])
    /\ color = ColorBlack
    /\ before = data
    /\ lastOp = NoOp
    /\ fillStack = <<>>
    /\ fillPc = "idle"
    /\ fillMatched = [q \in Coords(width, height) |-> 0]
    /\ isDrawing = FALSE

\* the colour input's onChange, line 1329
SetColor ==
    /\ \E c \in ColorValues : c # color /\ color' = c
    /\ UNCHANGED <<width, height, data, before, lastOp, fillStack, fillPc,
                    fillMatched, tool, isDrawing>>
    /\ UNCHANGED sheetVars

\* handleMouseDown with the fill-bucket tool on pixel (x, y) of the loaded
\* image (lines 1263-1268): floodFill(x, y)
FillClick ==
    /\ tool = "fill-bucket"
    /\ lastOp = NoOp
    /\ \E xy \in Coords(width, height) :
          /\ data' = floodFill(data, width, height, xy[1], xy[2], color)
          /\ lastOp' = [op |-> "floodFill", x |-> xy[1], y |-> xy[2],
                        color |-> color, again |-> FALSE]
    /\ before' = data
    /\ UNCHANGED <<width, height, color, fillStack, fillPc,
                    fillMatched, tool, isDrawing>>
    /\ UNCHANGED sheetVars

\* a second handleMouseDown with the fill-bucket tool on the pixel just
\* clicked, the colour being the one of the first click
FillClickAgain ==
    /\ tool = "fill-bucket"
    /\ lastOp.op = "floodFill"
    /\ ~lastOp.again
    /\ color = lastOp.color
    /\ data' = floodFill(data, width, height, lastOp.x, lastOp.y, color)
    /\ lastOp' = [lastOp EXCEPT !.again = TRUE]
    /\ before' = data
    /\ UNCHANGED <<width, height, color, fillStack, fillPc,
                    fillMatched, tool, isDrawing>>
    /\ UNCHANGED sheetVars

\* handleMouseDown with the magic-wand tool on pixel (x, y) of the canvas
\* (lines 1263-1266): removeColor(x, y)
WandClick ==
    /\ tool = "magic-wand"
    /\ \E xy \in Coords(width, height) :
          /\ data' = removeColor(data, width, height, xy[1], xy[2])
          /\ lastOp' = [op |-> "removeColor", x |-> xy[1], y |-> xy[2]]
    /\ before' = data
    /\ UNCHANGED <<width, height, color, fillStack, fillPc,
                    fillMatched, tool, isDrawing>>
    /\ UNCHANGED sheetVars

InitFill == tool = "fill-bucket" /\ EditorInit(MaxFillPixels, MaxFillSide, FillPalette) /\ SheetIdle
NextFill == SetColor \/ FillClick \/ FillClickAgain
SpecFill == InitFill /\ [][NextFill]_vars

InitMask == tool = "magic-wand" /\ EditorInit(MaxMaskPixels, MaxMaskSide, MaskPalette) /\ SheetIdle
NextMask == WandClick
SpecMask == InitMask /\ [][NextMask]_vars

\* the fill-bucket on images of colours one unit apart in a single channel
InitExact == tool = "fill-bucket" /\ EditorInit(MaxExactPixels, MaxExactSide, ExactPalette) /\ SheetIdle
NextExact == SetColor \/ FillClick
SpecExact == InitExact /\ [][NextExact]_vars

\* the seeds floodFill and removeColor take as (startX, startY) when they
\* are called with any coordinates on or next to a w-by-h canvas
SeedsAround(w, h) == ((0 - 1) .. w) \X ((0 - 1) .. h)

\* strings that are not "#rrggbb": a digit pair that is not hexadecimal, and
\* a string that is too short
ColorNotHex == <<"#", "f", "f", "z", "z", "0", "0">>
ColorShort == <<"#", "1", "2">>
CallColors == {ColorBlack, ColorRed, ColorNotHex, ColorShort}

\* pixels of the canvas the handlers are called on
CallPalette == {Black, Clear, Grey}

\* setColor with any string (line 1101: the state is a string)
SetColorAny ==
    /\ lastOp = NoOp
    /\ \E c \in CallColors : c # color /\ color' = c
    /\ UNCHANGED <<width, height, data, before, lastOp, fillStack, fillPc,
                    fillMatched, tool, isDrawing>>
    /\ UNCHANGED sheetVars

\* floodFill(startX, startY) called with any coordinates (lines 1177-1246);
\* no statement of floodFill throws, `raised` is what the call raised
FloodFillCall ==
    /\ lastOp = NoOp
    /\ \E xy \in SeedsAround(width, height) :
          /\ data' = floodFill(data, width, height, xy[1], xy[2], color)
          /\ lastOp' = [op |-> "floodFill", x |-> xy[1], y |-> xy[2],
                        color |-> color, again |-> FALSE, raised |-> "none"]
    /\ before' = data
    /\ UNCHANGED <<width, height, color, fillStack, fillPc,
                    fillMatched, tool, isDrawing>>
    /\ UNCHANGED sheetVars

\* removeColor(startX, startY) called with any coordinates (lines
\* 1141-1175); no statement of removeColor throws
RemoveColorCall ==
    /\ lastOp = NoOp
    /\ \E xy \in SeedsAround(width, height) :
          /\ data' = removeColor(data, width, height, xy[1], xy[2])
          /\ lastOp' = [op |-> "removeColor", x |-> xy[1], y |-> xy[2],
                        raised |-> "none"]
    /\ before' = data
    /\ UNCHANGED <<width, height, color, fillStack, fillPc,
                    fillMatched, tool, isDrawing>>
    /\ UNCHANGED sheetVars

InitCalls == tool = "pen" /\ EditorInit(MaxCallPixels, MaxCallSide, CallPalette) /\ SheetIdle
NextCalls == SetColorAny \/ FloodFillCall \/ RemoveColorCall
SpecCalls == InitCalls /\ [][NextCalls]_vars

\* the colour input's onChange before any handler has run
SetColorFirst ==
    /\ lastOp = NoOp
    /\ fillPc = "idle"
    /\ SetColor

\* floodFill's locals targetR..targetA and fillColor (lines 1194-1201), read
\* from the bitmap as it was at the call; they keep their value while the
\* loop runs
FillTarget == PixelAt(before, (lastOp.y * width + lastOp.x) * 4)
FillColor == hexToRgb(lastOp.color)

\* floodFill(startX, startY) from its call to the while of line 1211: the
\* return of line 1205 when the colours are the same, else the seed is
\* pushed (line 1209)
FillStart ==
    /\ lastOp = NoOp
    /\ fillPc = "idle"
    /\ \E xy \in SeedsAround(width, height) :
          /\ lastOp' = [op |-> "floodFill", x |-> xy[1], y |-> xy[2],
                        color |-> color, again |-> FALSE, raised |-> "none"]
          /\ IF SameColor(PixelAt(data, (xy[2] * width + xy[1]) * 4), hexToRgb(color))
             THEN fillStack' = <<>> /\ fillPc' = "idle"
             ELSE fillStack' = <<xy>> /\ fillPc' = "loop"
    /\ before' = data
    /\ UNCHANGED <<width, height, data, color,
                    fillMatched, tool, isDrawing>>
    /\ UNCHANGED sheetVars

\* one iteration of the while loop of lines 1211-1243
FillStep ==
    /\ fillPc = "loop"
    /\ fillStack # <<>>
    /\ \E target \in {FillTarget}, fillColor \in {FillColor} :
          \E newPos \in {fillStack[Len(fillStack)]},
             st \in {FillIter(data, fillStack, target, fillColor, width, height)} :
              /\ data' = st.data
              /\ fillStack' = st.pixelStack
              /\ fillMatched' = IF Fills(data, newPos, target, width, height)
                                THEN [fillMatched EXCEPT ![newPos] = @ + 1]
                                ELSE fillMatched
    /\ UNCHANGED <<width, height, color, before, lastOp, fillPc, tool, isDrawing>>
    /\ UNCHANGED sheetVars

\* the loop ends on the empty stack and the bitmap is put back (line 1245)
FillEnd ==
    /\ fillPc = "loop"
    /\ fillStack = <<>>
    /\ fillPc' = "idle"
    /\ UNCHANGED <<width, height, data, color, before, lastOp, fillStack,
                    fillMatched, tool, isDrawing>>
    /\ UNCHANGED sheetVars

\* floodFill is synchronous: once called it runs on, iteration after
\* iteration, until it returns
InitSteps == tool = "fill-bucket" /\ EditorInit(MaxStepPixels, MaxStepSide, FillPalette) /\ SheetIdle
NextSteps == SetColorFirst \/ FillStart \/ FillStep \/ FillEnd
SpecSteps == InitSteps /\ [][NextSteps]_vars /\ WF_vars(FillStep) /\ WF_vars(FillEnd)

\* the stack s with its entry k moved to the top
TakeAt(s, k) == SubSeq(s, 1, k - 1) \o SubSeq(s, k + 1, Len(s)) \o <<s[k]>>

\* one iteration of the loop of lines 1211-1243 with the entry taken from
\* any position of pixelStack; the pop of line 1212 takes the last one
FillStepAny ==
    /\ fillPc = "loop"
    /\ fillStack # <<>>
    /\ \E target \in {FillTarget}, fillColor \in {FillColor} :
          \E k \in 1 .. Len(fillStack) :
              \E st \in {FillIter(data, TakeAt(fillStack, k), target, fillColor,
                                  width, height)} :
                  /\ data' = st.data
                  /\ fillStack' = st.pixelStack
                  /\ fillMatched' = IF Fills(data, fillStack[k], target, width, height)
                                    THEN [fillMatched EXCEPT ![fillStack[k]] = @ + 1]
                                    ELSE fillMatched
    /\ UNCHANGED <<width, height, color, before, lastOp, fillPc, tool, isDrawing>>
    /\ UNCHANGED sheetVars

InitAnyOrder == tool = "fill-bucket" /\ EditorInit(MaxOrderPixels, MaxOrderSide, FillPalette) /\ SheetIdle
NextAnyOrder == FillStart \/ FillStepAny \/ FillEnd
SpecAnyOrder == InitAnyOrder /\ [][NextAnyOrder]_vars

---------------------------------------------------------------------------
(* Reference notions the flood-fill claims are stated with.                *)

\* the colour a "#rrggbb" value of the colour input denotes, fully opaque
ColorPixel(hex) == IF hex = ColorRed THEN Red ELSE Black

\* p and q are neighbours by one step up, down, left or right
Adjacent4(p, q) == Abs(p[1] - q[1]) + Abs(p[2] - q[2]) = 1

\* p and q touch only by a corner
Diagonal(p, q) == Abs(p[1] - q[1]) = 1 /\ Abs(p[2] - q[2]) = 1

\* the least set that contains S and every pixel of same that is a
\* 4-neighbour of one of its members
RECURSIVE Reach(_, _)
Reach(S, same) ==
    LET S2 == S \cup {q \in same : \E p \in S : Adjacent4(p, q)}
    IN  IF S2 = S THEN S ELSE Reach(S2, same)

\* the 4-connected component of seed among the pixels of d that have seed's colour
Component(d, w, h, seed) ==
    LET T == Pixel(d, w, seed[1], seed[2])
    IN  Reach({seed}, {q \in Coords(w, h) : Pixel(d, w, q[1], q[2]) = T})

\* the pixels whose value differs between bitmaps d1 and d2
Changed(d1, d2, w, h) ==
    {q \in Coords(w, h) : Pixel(d1, w, q[1], q[2]) # Pixel(d2, w, q[1], q[2])}

\* the last handler was floodFill; its seed, and the seed's colour before it
Filled == lastOp.op = "floodFill"
Seed == <<lastOp.x, lastOp.y>>
SeedColorBefore == Pixel(before, width, lastOp.x, lastOp.y)

---------------------------------------------------------------------------
(* C1: when the fill colour differs from the seed pixel's colour T, the    *)
(* pixels floodFill changes are exactly the 4-connected component of       *)
(* T-coloured pixels that contains the seed; each of them holds the fill   *)
(* colour afterwards and every other pixel holds its old value.            *)
C1_FillIsComponent ==
    (Filled /\ SeedColorBefore # ColorPixel(lastOp.color)) =>
        LET comp == Component(before, width, height, Seed)
        IN  /\ Changed(before, data, width, height) = comp
            /\ \A q \in Coords(width, height) :
                  Pixel(data, width, q[1], q[2]) =
                      IF q \in comp THEN ColorPixel(lastOp.color)
                      ELSE Pixel(before, width, q[1], q[2])

\* a 3x3 canvas on which the filled region has at least three pixels and a
\* pixel of the same old colour touches it only by a corner and is not changed
C1_Witness ==
    /\ Filled /\ ~lastOp.again
    /\ width = 3 /\ height = 3
    /\ SeedColorBefore # ColorPixel(lastOp.color)
    /\ LET comp == Component(before, width, height, Seed)
       IN  /\ Cardinality(comp) >= 3
           /\ Changed(before, data, width, height) = comp
           /\ \E q \in Coords(width, height) \ comp :
                 /\ Pixel(before, width, q[1], q[2]) = SeedColorBefore
                 /\ \E p \in comp : Diagonal(p, q)
                 /\ Pixel(data, width, q[1], q[2]) = SeedColorBefore

(* C2: when the seed pixel already equals the fill colour on all four      *)
(* channels, floodFill changes no pixel.                                   *)
C2_SameColorNoOp ==
    (Filled /\ SeedColorBefore = ColorPixel(lastOp.color)) => data = before

\* a first click on a pixel of the fill colour, on a canvas that also holds
\* a pixel of the same r, g, b with another alpha next to the seed
C2_Witness ==
    /\ Filled /\ ~lastOp.again
    /\ SeedColorBefore = ColorPixel(lastOp.color)
    /\ \E q \in Coords(width, height) :
          /\ Adjacent4(Seed, q)
          /\ Pixel(before, width, q[1], q[2]) = Clear
    /\ data = before

(* C3: floodFill is idempotent: a second floodFill on the same pixel with  *)
(* the same colour, right after the first, leaves the bitmap as the first  *)
(* left it.                                                                *)
C3_FillIdempotent ==
    (Filled /\ lastOp.again) => data = before

\* the second of two fills in red, the first of which painted the seed
\* (no loaded pixel is red) and left another pixel as it was
C3_Witness ==
    /\ Filled /\ lastOp.again
    /\ lastOp.color = ColorRed
    /\ Pixel(before, width, lastOp.x, lastOp.y) = Red
    /\ \E q \in Coords(width, height) : Pixel(before, width, q[1], q[2]) # Red
    /\ data = before

---------------------------------------------------------------------------
(* Reference notions the masking claims are stated with.                   *)

\* the last handler was removeColor; the seed pixel as it was before it
Masked == lastOp.op = "removeColor"
SeedBefore == Pixel(before, width, lastOp.x, lastOp.y)

\* pixel q as it was before the last handler, and as it is now
Old(q) == Pixel(before, width, q[1], q[2])
New(q) == Pixel(data, width, q[1], q[2])

\* the r, g and b of colours p and s each differ by at most t
Near(p, s, t) ==
    /\ Abs(p[1] - s[1]) <= t
    /\ Abs(p[2] - s[2]) <= t
    /\ Abs(p[3] - s[3]) <= t

\* the last handler made pixel q transparent
MadeTransparent(q) == Old(q)[4] # 0 /\ New(q)[4] = 0

\* tolerances a caller of removeColor could ask for
CallerTolerances == {15, 16}

---------------------------------------------------------------------------
(* C4: removeColor is global: when the seed pixel's alpha is nonzero,      *)
(* every pixel of the bitmap whose r, g and b are each within 15 of the    *)
(* seed's and whose alpha is nonzero ends with alpha 0, wherever it lies.  *)
C4_MaskIsGlobal ==
    (Masked /\ SeedBefore[4] # 0) =>
        LET seed == SeedBefore
        IN  \A q \in Coords(width, height) :
                LET old == Old(q)
                IN  (Near(old, seed, 15) /\ old[4] # 0) => New(q)[4] = 0

\* a pixel of the seed's colour, separated from the seed by a pixel that is
\* out of tolerance and stays opaque, is made transparent
C4_Witness ==
    /\ Masked /\ SeedBefore[4] # 0
    /\ \E q \in Coords(width, height) :
          /\ q # <<lastOp.x, lastOp.y>>
          /\ ~Adjacent4(q, <<lastOp.x, lastOp.y>>)
          /\ Old(q) = SeedBefore
          /\ MadeTransparent(q)
          /\ \E m \in Coords(width, height) :
                /\ Adjacent4(m, q) /\ Adjacent4(m, <<lastOp.x, lastOp.y>>)
                /\ ~Near(Old(m), SeedBefore, 15)
                /\ New(m) = Old(m) /\ New(m)[4] # 0

C6_MaskFrame ==
    Masked =>
        LET seed == SeedBefore
        IN  \A q \in Coords(width, height) :
                LET old == Old(q)
                    new == New(q)
                IN  /\ new[1] = old[1] /\ new[2] = old[2] /\ new[3] = old[3]
                    /\ ~Near(old, seed, 15) => new[4] = old[4]
                    /\ old[4] = 0 => new = old

\* a call that masks one pixel (keeping its r, g, b), leaves a pixel out of
\* tolerance alone, and finds a transparent pixel within tolerance
C6_Witness ==
    /\ Masked /\ SeedBefore = Black
    /\ New(<<lastOp.x, lastOp.y>>) = <<0, 0, 0, 0>>
    /\ \E q \in Coords(width, height) : Old(q) = Grey /\ New(q) = Grey
    /\ \E q \in Coords(width, height) : Old(q) = Clear /\ New(q) = Clear

(* C7: when the seed pixel's alpha is 0, removeColor changes no pixel,     *)
(* even if other pixels have the seed's r, g, b and a nonzero alpha.       *)
C7_TransparentSeedNoOp ==
    (Masked /\ SeedBefore[4] = 0) => data = before

\* a click on a transparent pixel of a bitmap that holds an opaque pixel of
\* the same r, g, b
C7_Witness ==
    /\ Masked /\ SeedBefore[4] = 0
    /\ \E q \in Coords(width, height) :
          /\ Old(q)[4] # 0
          /\ Near(Old(q), SeedBefore, 0)
          /\ New(q) = Old(q)

(* C8: alpha takes no part in the comparison: when the seed pixel's alpha  *)
(* is nonzero, a pixel within tolerance whose alpha is nonzero and differs *)
(* from the seed's alpha is masked.                                        *)
C8_AlphaNotCompared ==
    (Masked /\ SeedBefore[4] # 0) =>
        LET seed == SeedBefore
        IN  \A q \in Coords(width, height) :
                LET old == Old(q)
                IN  (Near(old, seed, 15) /\ old[4] # 0 /\ old[4] # seed[4])
                        => New(q)[4] = 0

\* an opaque seed and a half-transparent pixel of the same r, g, b that is masked
C8_Witness ==
    /\ Masked /\ SeedBefore = Grey
    /\ \E q \in Coords(width, height) : Old(q) = GreyHalf /\ MadeTransparent(q)

---------------------------------------------------------------------------
(* handleAssembleSheet, src/App.tsx 293-362.                               *)

\* Math.max over a non-empty sequence of numbers
RECURSIVE MaxOf(_)
MaxOf(ns) ==
    IF Len(ns) = 1 THEN ns[1]
    ELSE LET m == MaxOf(Tail(ns)) IN IF ns[1] > m THEN ns[1] ELSE m

\* a variant of CeilDiv: the quotient is rounded down
CeilDiv_Floor(a, b) == a \div b

\* Math.ceil(a / b) for a >= 0 and b >= 1
CeilDiv(a, b) == IF a % b = 0 THEN a \div b ELSE (a \div b) + 1

\* lines 309-310: the cell is as wide as the widest image and as high as the highest
CellSize(loadedImages) ==
    [width |-> MaxOf([i \in 1 .. Len(loadedImages) |-> loadedImages[i].width]),
     height |-> MaxOf([i \in 1 .. Len(loadedImages) |-> loadedImages[i].height])]

\* line 314
Rows(loadedImages, cols) == CeilDiv(Len(loadedImages), cols)

\* a variant of CanvasSize: the single-image case of lines 321-324 is missing
CanvasSize_NoSingleCase(loadedImages, cols, spacing) ==
    LET cell == CellSize(loadedImages)
        rows == Rows(loadedImages, cols)
    IN  [width |-> cols * cell.width + (cols - 1) * spacing,
         height |-> rows * cell.height + (rows - 1) * spacing]

\* lines 316-324: the size of the canvas
CanvasSize(loadedImages, cols, spacing) ==
    LET cell == CellSize(loadedImages)
        rows == Rows(loadedImages, cols)
    IN  IF Len(loadedImages) = 1
        THEN [width |-> cell.width, height |-> cell.height]
        ELSE [width |-> cols * cell.width + (cols - 1) * spacing,
              height |-> rows * cell.height + (rows - 1) * spacing]

\* line 330: the column of the image at index i (from 0)
Col(i, cols) == i % cols

\* line 331: the row of the image at index i (from 0), Math.floor(i / cols)
Row(i, cols) == i \div cols

\* a variant of CellOrigin: the images run down the columns first
CellOrigin_ColumnMajor(loadedImages, i, cols, spacing) ==
    LET cell == CellSize(loadedImages)
    IN  [x |-> Row(i, cols) * (cell.width + spacing),
         y |-> Col(i, cols) * (cell.height + spacing)]

\* lines 333-334: the top-left corner of the cell of the image at index i
CellOrigin(loadedImages, i, cols, spacing) ==
    LET cell == CellSize(loadedImages)
    IN  [x |-> Col(i, cols) * (cell.width + spacing),
         y |-> Row(i, cols) * (cell.height + spacing)]

\* a variant of AlignOffset: 'right' and 'bottom' start at the far edge of
\* the cell
AlignOffset_FarEdge(alignment, middle, far, cellSide, imgSide) ==
    IF alignment = middle THEN (cellSide - imgSide) \div 2
    ELSE IF alignment = far THEN cellSide
    ELSE 0

\* a variant of AlignOffset: the half of "center" is rounded up
AlignOffset_CeilHalf(alignment, middle, far, cellSide, imgSide) ==
    IF alignment = middle THEN (cellSide - imgSide + 1) \div 2
    ELSE IF alignment = far THEN cellSide - imgSide
    ELSE 0

\* lines 337-342 and 345-350: the offset of an image of side imgSide in a
\* cell of side cellSide; middle is 'center', far is 'right' or 'bottom'
AlignOffset(alignment, middle, far, cellSide, imgSide) ==
    IF alignment = middle THEN (cellSide - imgSide) \div 2
    ELSE IF alignment = far THEN cellSide - imgSide
    ELSE 0

\* lines 329-353: the drawImage calls of the forEach, in order, each with
\* the locals it was computed from; img is the position of the image in
\* loadedImages (from 1), dx and dy are the arguments of drawImage
Draws(loadedImages, cols, spacing, hAlign, vAlign) ==
    LET cell == CellSize(loadedImages)
    IN  [k \in 1 .. Len(loadedImages) |->
            LET i == k - 1
                origin == CellOrigin(loadedImages, i, cols, spacing)
                xOffset == AlignOffset(hAlign, "center", "right",
                                       cell.width, loadedImages[k].width)
                yOffset == AlignOffset(vAlign, "center", "bottom",
                                       cell.height, loadedImages[k].height)
            IN  [img |-> k, col |-> Col(i, cols), row |-> Row(i, cols),
                 x |-> origin.x, y |-> origin.y,
                 xOffset |-> xOffset, yOffset |-> yOffset,
                 dx |-> origin.x + xOffset, dy |-> origin.y + yOffset]]

\* lines 299-303: an image source decodes (onload) or does not (onerror);
\* one that does not decode has no size
Decodes(img) == img.width > 0

\* line 358: the message of setError
AssembleError == "Khong the ghep anh"

\* the decoded sizes of the images that are uploaded or added to the sheet
ImageSizes == {[width |-> 16, height |-> 16], [width |-> 8, height |-> 8],
               [width |-> 11, height |-> 4]}

\* the sequences of at most n elements of S
RECURSIVE SeqsUpTo(_, _)
SeqsUpTo(S, n) ==
    IF n = 0 THEN {<<>>}
    ELSE LET shorter == SeqsUpTo(S, n - 1)
         IN  shorter \cup {Append(q, e) : q \in {t \in shorter : Len(t) = n - 1}, e \in S}

HorizontalAlignments == {"left", "center", "right"}
VerticalAlignments == {"top", "center", "bottom"}

\* the pixel editor at rest, for the specification of the sheet assembler
EditorIdle ==
    /\ width = 1
    /\ height = 1
    /\ data = Bitmap([p \in {0} |-> Clear], 1, 1)
    /\ color = ColorBlack
    /\ before = data
    /\ lastOp = NoOp
    /\ fillStack = <<>>
    /\ fillPc = "idle"
    /\ fillMatched = [q \in Coords(1, 1) |-> 0]
    /\ tool = "pen"
    /\ isDrawing = FALSE

\* the sprite-sheet panel after the user has listed images (lines 228-291)
\* and set columns, spacing and alignments (lines 782, 793, 805-845)
InitSheet ==
    /\ sheetImages \in SeqsUpTo(ImageSizes, MaxImages)
    /\ sheetColumns \in 1 .. MaxColumns
    /\ sheetSpacing \in 0 .. MaxSpacing
    /\ sheetHorizontalAlignment \in HorizontalAlignments
    /\ sheetVerticalAlignment \in VerticalAlignments
    /\ isGenerating = FALSE
    /\ sheetPc = "idle"
    /\ generatedImage = NoImage
    /\ error = NoError
    /\ lastSheetCall = "none"
    /\ currentMode = "SPRITE_SHEET"
    /\ inFlight = <<>>
    /\ EditorIdle

\* handleAssembleSheet up to the await of line 298; the button of line 857
\* is disabled while isGenerating or with no image
AssembleStart ==
    /\ sheetPc = "idle"
    /\ ~isGenerating
    /\ Len(sheetImages) # 0
    /\ isGenerating' = TRUE
    /\ sheetPc' = "loading"
    /\ UNCHANGED <<sheetImages, sheetColumns, sheetSpacing, sheetHorizontalAlignment,
                   sheetVerticalAlignment, generatedImage, error, lastSheetCall>>
    /\ UNCHANGED <<currentMode, inFlight>>
    /\ UNCHANGED editorVars

\* a variant of AssembleFinish: the images that were assembled leave the list
AssembleFinish_ConsumesList ==
    /\ sheetPc = "loading"
    /\ \A k \in 1 .. Len(sheetImages) : Decodes(sheetImages[k])
    /\ generatedImage' =
          LET size == CanvasSize(sheetImages, sheetColumns, sheetSpacing)
          IN  [kind |-> "sheet", width |-> size.width, height |-> size.height,
               draws |-> Draws(sheetImages, sheetColumns, sheetSpacing,
                               sheetHorizontalAlignment, sheetVerticalAlignment)]
    /\ isGenerating' = FALSE
    /\ sheetPc' = "idle"
    /\ lastSheetCall' = "assembled"
    /\ sheetImages' = <<>>
    /\ UNCHANGED <<sheetColumns, sheetSpacing, sheetHorizontalAlignment,
                   sheetVerticalAlignment, error>>
    /\ UNCHANGED <<currentMode, inFlight>>
    /\ UNCHANGED editorVars

\* handleAssembleSheet from the images being loaded to its end (lines 307-361),
\* every listed image having decoded (img.onload, line 301)
AssembleFinish ==
    /\ sheetPc = "loading"
    /\ \A k \in 1 .. Len(sheetImages) : Decodes(sheetImages[k])
    /\ generatedImage' =
          LET size == CanvasSize(sheetImages, sheetColumns, sheetSpacing)
          IN  [kind |-> "sheet", width |-> size.width, height |-> size.height,
               draws |-> Draws(sheetImages, sheetColumns, sheetSpacing,
                               sheetHorizontalAlignment, sheetVerticalAlignment)]
    /\ isGenerating' = FALSE
    /\ sheetPc' = "idle"
    /\ lastSheetCall' = "assembled"
    /\ UNCHANGED <<sheetImages, sheetColumns, sheetSpacing, sheetHorizontalAlignment,
                   sheetVerticalAlignment, error>>
    /\ UNCHANGED <<currentMode, inFlight>>
    /\ UNCHANGED editorVars

\* handleAssembleSheet from the await of line 298 to its end when an image
\* does not decode: img.onerror rejects the Promise.all, the catch of lines
\* 356-359 sets the error and the finally of line 360 clears isGenerating
AssembleFail ==
    /\ sheetPc = "loading"
    /\ \E k \in 1 .. Len(sheetImages) : ~Decodes(sheetImages[k])
    /\ error' = AssembleError
    /\ isGenerating' = FALSE
    /\ sheetPc' = "idle"
    /\ lastSheetCall' = "failed"
    /\ UNCHANGED <<sheetImages, sheetColumns, sheetSpacing, sheetHorizontalAlignment,
                   sheetVerticalAlignment, generatedImage>>
    /\ UNCHANGED <<currentMode, inFlight>>
    /\ UNCHANGED editorVars

\* handleAssembleSheet called with no image listed: the return of line 294.
\* (The button of line 857 is disabled then, so this is a call of the
\* handler itself.)
AssembleEmpty ==
    /\ sheetPc = "idle"
    /\ Len(sheetImages) = 0
    /\ lastSheetCall' = "returned"
    /\ UNCHANGED <<sheetImages, sheetColumns, sheetSpacing, sheetHorizontalAlignment,
                   sheetVerticalAlignment, isGenerating, sheetPc, generatedImage, error>>
    /\ UNCHANGED <<currentMode, inFlight>>
    /\ UNCHANGED editorVars

NextSheet == AssembleStart \/ AssembleFinish
SpecSheet == InitSheet /\ [][NextSheet]_vars

\* the same panel with shorter lists, for the rectangles of the sheet
InitCells ==
    /\ sheetImages \in SeqsUpTo(ImageSizes, MaxCellImages)
    /\ sheetColumns \in 1 .. MaxCellColumns
    /\ sheetSpacing \in 0 .. MaxCellSpacing
    /\ sheetHorizontalAlignment \in HorizontalAlignments
    /\ sheetVerticalAlignment \in VerticalAlignments
    /\ isGenerating = FALSE
    /\ sheetPc = "idle"
    /\ generatedImage = NoImage
    /\ error = NoError
    /\ lastSheetCall = "none"
    /\ currentMode = "SPRITE_SHEET"
    /\ inFlight = <<>>
    /\ EditorIdle
SpecCells == InitCells /\ [][NextSheet]_vars

\* images with their pixels, row by row from index 0, for the assembler to
\* draw; the last one is a source that does not decode
Sprite1x1 == [width |-> 1, height |-> 1, pixels |-> [p \in {0} |-> Red]]
Sprite2x1 == [width |-> 2, height |-> 1,
              pixels |-> [p \in {0, 1} |-> IF p = 0 THEN GreyHalf ELSE Black]]
Sprite1x2 == [width |-> 1, height |-> 2,
              pixels |-> [p \in {0, 1} |-> IF p = 0 THEN Clear ELSE Grey]]
BrokenImage == [width |-> 0, height |-> 0, pixels |-> <<>>]
Sprites == {Sprite1x1, Sprite2x1, Sprite1x2, BrokenImage}

\* the sprite-sheet panel with small images, broken ones included
InitSprites ==
    /\ sheetImages \in SeqsUpTo(Sprites, MaxSprites)
    /\ sheetColumns \in 1 .. MaxSpriteColumns
    /\ sheetSpacing \in 0 .. MaxSpriteSpacing
    /\ sheetHorizontalAlignment \in HorizontalAlignments
    /\ sheetVerticalAlignment \in VerticalAlignments
    /\ isGenerating = FALSE
    /\ sheetPc = "idle"
    /\ generatedImage = NoImage
    /\ error = NoError
    /\ lastSheetCall = "none"
    /\ currentMode = "SPRITE_SHEET"
    /\ inFlight = <<>>
    /\ EditorIdle

NextSprites == AssembleEmpty \/ AssembleStart \/ AssembleFinish \/ AssembleFail
SpecSprites == InitSprites /\ [][NextSprites]_vars

\* a variant of SourceOver: the canvas has no alpha channel
SourceOver_Opaque(src, dst) == <<src[1], src[2], src[3], 255>>

\* drawImage composites with the default globalCompositeOperation,
\* 'source-over': the source pixel src over the canvas pixel dst (line 352).
\* The result is the source pixel wherever the canvas is still transparent.
SourceOver(src, dst) ==
    LET sa == src[4]
        da == dst[4]
        outA == sa + (da * (255 - sa)) \div 255
        Channel(c) == (src[c] * sa * 255 + dst[c] * da * (255 - sa)) \div (outA * 255)
    IN  IF outA = 0 THEN <<0, 0, 0, 0>>
        ELSE <<Channel(1), Channel(2), Channel(3), outA>>

\* the draw d of image img paints the canvas pixel (px, py)
Covers(img, d, px, py) ==
    /\ d.dx <= px /\ px < d.dx + img.width
    /\ d.dy <= py /\ py < d.dy + img.height

\* the pixel of img that the draw d puts on the canvas pixel (px, py)
SourcePixel(img, d, px, py) == img.pixels[(py - d.dy) * img.width + (px - d.dx)]

\* the canvas pixel (px, py) once the first k of the draws are done, the
\* canvas created at line 316 being transparent
RECURSIVE Composite(_, _, _, _, _)
Composite(images, draws, k, px, py) ==
    IF k = 0 THEN <<0, 0, 0, 0>>
    ELSE LET below == Composite(images, draws, k - 1, px, py)
             d == draws[k]
             img == images[d.img]
         IN  IF Covers(img, d, px, py)
             THEN SourceOver(SourcePixel(img, d, px, py), below)
             ELSE below

---------------------------------------------------------------------------
(* Reference notions the sheet claims are stated with.                     *)

\* a sheet has been assembled from the images listed
Assembled == generatedImage.kind = "sheet"
N == Len(sheetImages)

\* the greatest width and the greatest height among the images listed
WidestImage == CHOOSE w \in {sheetImages[i].width : i \in 1 .. N} :
    \A i \in 1 .. N : sheetImages[i].width <= w
HighestImage == CHOOSE h \in {sheetImages[i].height : i \in 1 .. N} :
    \A i \in 1 .. N : sheetImages[i].height <= h

\* ceil(N / C): the least number of rows of C cells that hold N images
RowsNeeded == CHOOSE r \in 0 .. N : r * sheetColumns >= N /\ (r - 1) * sheetColumns < N

---------------------------------------------------------------------------
(* C9: for N >= 2 images, C >= 1 columns and spacing S >= 0, the canvas is *)
(* C*cellW + (C-1)*S wide and rows*cellH + (rows-1)*S high, cellW and      *)
(* cellH being the greatest width and height of the images and rows being  *)
(* ceil(N / C).                                                            *)
C9_CanvasSize ==
    (Assembled /\ N >= 2 /\ sheetColumns >= 1 /\ sheetSpacing >= 0) =>
        /\ generatedImage.width =
              sheetColumns * WidestImage + (sheetColumns - 1) * sheetSpacing
        /\ generatedImage.height =
              RowsNeeded * HighestImage + (RowsNeeded - 1) * sheetSpacing

\* 5 images of sizes up to 16x16, not all alike, with 3 columns and spacing
\* 2, give a canvas of 52 by 34
C9_Witness ==
    /\ Assembled /\ N = 5 /\ sheetColumns = 3 /\ sheetSpacing = 2
    /\ sheetImages[1].width = 8 /\ sheetImages[5].width = 11
    /\ generatedImage.width = 52 /\ generatedImage.height = 34

(* C10: when exactly one image is assembled, the canvas is that image's    *)
(* width by its height, whatever columns and spacing are.                  *)
C10_SingleImage ==
    (Assembled /\ N = 1) =>
        /\ generatedImage.width = sheetImages[1].width
        /\ generatedImage.height = sheetImages[1].height

\* one 11x4 image with 3 columns and spacing 2 gives a canvas of 11 by 4
C10_Witness ==
    /\ Assembled /\ N = 1 /\ sheetColumns = 3 /\ sheetSpacing = 2
    /\ sheetImages[1].width = 11
    /\ generatedImage.width = 11 /\ generatedImage.height = 4

\* the draw of the image at index i (from 0) of the sheet last assembled
DrawOf(i) == generatedImage.draws[i + 1]

(* C11: the images are placed row-major in input order: the draw at index  *)
(* i is of the image at index i, in the column c and the row r with        *)
(* i = r*C + c and 0 <= c < C, and its cell origin is                      *)
(* (c*(cellW+S), r*(cellH+S)).                                             *)
C11_RowMajor ==
    Assembled =>
        /\ Len(generatedImage.draws) = N
        /\ \A i \in 0 .. (N - 1) :
              LET d == DrawOf(i)
              IN  /\ d.img = i + 1
                  /\ d.col \in 0 .. (sheetColumns - 1)
                  /\ d.row >= 0
                  /\ i = d.row * sheetColumns + d.col
                  /\ d.x = d.col * (WidestImage + sheetSpacing)
                  /\ d.y = d.row * (HighestImage + sheetSpacing)

\* five images in 3 columns with spacing 2 and 16x16 cells: the fifth image
\* (index 4) is in column 1 of row 1, its cell at (18, 18)
C11_Witness ==
    /\ Assembled /\ N = 5 /\ sheetColumns = 3 /\ sheetSpacing = 2
    /\ WidestImage = 16 /\ HighestImage = 16
    /\ DrawOf(4).col = 1 /\ DrawOf(4).row = 1
    /\ DrawOf(4).x = 18 /\ DrawOf(4).y = 18

\* floor(n / 2) for n >= 0
HalfDown(n) == CHOOSE f \in 0 .. n : 2 * f <= n /\ n < 2 * f + 2

(* C12: within its cell an image is offset horizontally by 0 (left),       *)
(* floor((cellW-imgW)/2) (center) or cellW-imgW (right), and vertically by *)
(* 0 (top), floor((cellH-imgH)/2) (center) or cellH-imgH (bottom); it is   *)
(* drawn at its cell origin plus that offset.  An 8x8 image in a 16x16     *)
(* cell is offset (4,4) when centered and (8,8) when aligned bottom-right. *)
C12_AlignmentOffsets ==
    Assembled =>
        \A i \in 0 .. (N - 1) :
            LET d == DrawOf(i)
                freeW == WidestImage - sheetImages[i + 1].width
                freeH == HighestImage - sheetImages[i + 1].height
            IN  /\ sheetHorizontalAlignment = "left" => d.xOffset = 0
                /\ sheetHorizontalAlignment = "center" => d.xOffset = HalfDown(freeW)
                /\ sheetHorizontalAlignment = "right" => d.xOffset = freeW
                /\ sheetVerticalAlignment = "top" => d.yOffset = 0
                /\ sheetVerticalAlignment = "center" => d.yOffset = HalfDown(freeH)
                /\ sheetVerticalAlignment = "bottom" => d.yOffset = freeH
                /\ d.dx = d.x + d.xOffset
                /\ d.dy = d.y + d.yOffset
                /\ (freeW = 8 /\ freeH = 8 /\ sheetHorizontalAlignment = "center"
                    /\ sheetVerticalAlignment = "center")
                       => (d.xOffset = 4 /\ d.yOffset = 4)
                /\ (freeW = 8 /\ freeH = 8 /\ sheetHorizontalAlignment = "right"
                    /\ sheetVerticalAlignment = "bottom")
                       => (d.xOffset = 8 /\ d.yOffset = 8)

\* centered in 16x16 cells, an 8x8 image is offset (4, 4) and an 11x4 image
\* (5 and 12 pixels free) is offset (2, 6)
C12_Witness ==
    /\ Assembled /\ N = 3
    /\ sheetHorizontalAlignment = "center" /\ sheetVerticalAlignment = "center"
    /\ WidestImage = 16 /\ HighestImage = 16
    /\ sheetImages[2].width = 8 /\ DrawOf(1).xOffset = 4 /\ DrawOf(1).yOffset = 4
    /\ sheetImages[3].width = 11 /\ DrawOf(2).xOffset = 2 /\ DrawOf(2).yOffset = 6

\* the pixel (px, py) of the sheet last assembled
CanvasPixel(px, py) ==
    Composite(sheetImages, generatedImage.draws, Len(generatedImage.draws), px, py)

\* the draws of the sheet last assembled that cover its pixel (px, py)
Covering(px, py) ==
    {k \in 1 .. Len(generatedImage.draws) :
        Covers(sheetImages[k], generatedImage.draws[k], px, py)}

C14_InputsUntouched == [][sheetImages' = sheetImages]_vars

\* a call that failed on a list of three images, the second of which does
\* not decode
C14_Witness ==
    /\ lastSheetCall = "failed" /\ error = AssembleError /\ ~isGenerating
    /\ N = 3 /\ sheetImages[2] = BrokenImage /\ sheetImages[3] = Sprite2x1

(* C15: assembling an empty sequence of images fails with an EmptyInput    *)
(* error that the caller can observe; it is not a silent return.           *)
C15_AsClaimed ==
    (N = 0 /\ lastSheetCall # "none") =>
        (lastSheetCall = "failed" /\ error # NoError)

---------------------------------------------------------------------------
(* Reference notions the claims on calls with any arguments are stated     *)
(* with.                                                                   *)

\* the seed of the last handler is a pixel of the canvas
SeedInBuffer ==
    /\ 0 <= lastOp.x /\ lastOp.x < width
    /\ 0 <= lastOp.y /\ lastOp.y < height

HexDigits == {"0", "1", "2", "3", "4", "5", "6", "7", "8", "9",
              "a", "b", "c", "d", "e", "f", "A", "B", "C", "D", "E", "F"}

\* hex is "#" followed by six hexadecimal digits
WellFormed(hex) ==
    /\ Len(hex) = 7
    /\ hex[1] = "#"
    /\ \A k \in 2 .. 7 : hex[k] \in HexDigits

(* C16: floodFill with a seed outside the buffer (startX outside [0,W) or  *)
(* startY outside [0,H)) fails with OutOfBounds, is not a silent no-op,    *)
(* and leaves every pixel of the buffer unchanged.                         *)
C16_AsClaimed ==
    (Filled /\ ~SeedInBuffer) =>
        (lastOp.raised = "OutOfBounds" /\ data = before)

\* what floodFill does with a seed outside the buffer: nothing, silently
C16_SilentNoOp ==
    (Filled /\ ~SeedInBuffer) => (lastOp.raised = "none" /\ data = before)

\* a fill with red called at (2, 0) of a 2x2 canvas
C16_Witness ==
    /\ Filled /\ width = 2 /\ height = 2 /\ lastOp.x = 2 /\ lastOp.y = 0
    /\ lastOp.color = ColorRed /\ lastOp.raised = "none" /\ data = before

(* C17: removeColor with a seed outside the buffer fails with OutOfBounds  *)
(* and leaves every pixel unchanged; in particular a seed with startX = W  *)
(* and startY in range does not take the first pixel of the next row as    *)
(* the reference colour and mask pixels with it.                           *)
C17_AsClaimed ==
    (Masked /\ ~SeedInBuffer) =>
        (lastOp.raised = "OutOfBounds" /\ data = before)

\* removeColor called at (1, 0) of a canvas one pixel wide and two high,
\* transparent over grey: the grey pixel (0, 1) is the reference and is masked
C17_Witness ==
    /\ Masked /\ width = 1 /\ height = 2 /\ lastOp.x = 1 /\ lastOp.y = 0
    /\ Old(<<0, 0>>) = Clear /\ Old(<<0, 1>>) = Grey
    /\ New(<<0, 1>>) = <<100, 100, 100, 0>>
    /\ lastOp.raised = "none"

(* C18: a malformed hex colour string is rejected as InvalidColor before   *)
(* the fill runs: floodFill never proceeds with a colour whose channels    *)
(* failed to parse, and the buffer is unchanged in that case.              *)
C18_AsClaimed ==
    (Filled /\ ~WellFormed(lastOp.color)) =>
        (lastOp.raised = "InvalidColor" /\ data = before)

\* a fill with "#ffzz00" on a black pixel: the pixel is written (255, 0, 0, 255)
C18_Witness ==
    /\ Filled /\ lastOp.color = ColorNotHex /\ SeedInBuffer
    /\ hexToRgb(lastOp.color).g = NaN
    /\ SeedColorBefore = Black
    /\ New(Seed) = Red
    /\ lastOp.raised = "none"

---------------------------------------------------------------------------
(* Reference notions the claims on the loop of floodFill are stated with.  *)

\* floodFill is in its loop; floodFill was called and has returned
FillRunning == fillPc = "loop"
FillReturned == Filled /\ fillPc = "idle"

(* C19: floodFill terminates for every buffer, every seed and every fill   *)
(* colour: whenever it is in its loop, the stack eventually becomes empty  *)
(* and the operation returns.                                              *)
C19_FillTerminates == FillRunning ~> (fillStack = <<>> /\ FillReturned)

\* a fill that has returned after it filled the six pixels of a 3x2 canvas
C19_Witness ==
    /\ FillReturned /\ width = 3 /\ height = 2
    /\ Cardinality(Changed(before, data, width, height)) = 6

(* C20: the final buffer of floodFill does not depend on the order in      *)
(* which the entries of the frontier are taken: with the entries removed   *)
(* in any order, from the same starting buffer, seed and colour, the       *)
(* buffer at the end is the one the stack order gives.                     *)
C20_OrderIndependent ==
    FillReturned =>
        data = floodFill(before, width, height, lastOp.x, lastOp.y, lastOp.color)

\* a fill that has returned after it filled the four pixels of a 2x2 canvas
C20_Witness ==
    /\ FillReturned /\ width = 2 /\ height = 2
    /\ Cardinality(Changed(before, data, width, height)) = 4


---------------------------------------------------------------------------
(* The loop of floodFill, pixel by pixel.                                  *)

\* the entry the next iteration pops (line 1212), and the stack under it
TopOfStack == fillStack[Len(fillStack)]
UnderTop == SubSeq(fillStack, 1, Len(fillStack) - 1)

\* the pixels the loop has written so far
MatchedSoFar == {q \in DOMAIN fillMatched : fillMatched[q] > 0}

(* C21: during one floodFill each pixel is matched and written at most     *)
(* once, and its four neighbours are pushed exactly once on its behalf; a  *)
(* filled pixel is never matched again in the same call.  No pixel is      *)
(* matched twice, the matched pixels are the ones whose value has changed, *)
(* and an iteration either matches its entry, writes the fill colour there *)
(* and pushes the four neighbours, or only pops.                           *)
C21_MatchedOnce ==
    /\ [](\A q \in Coords(width, height) :
             /\ fillMatched[q] <= 1
             /\ (fillMatched[q] = 1) <=> (New(q) # Old(q)))
    /\ [][(fillPc = "loop" /\ fillStack # <<>>) =>
            IF fillMatched' # fillMatched
            THEN /\ fillMatched[TopOfStack] = 0
                 /\ fillMatched' = [fillMatched EXCEPT ![TopOfStack] = 1]
                 /\ Pixel(data, width, TopOfStack[1], TopOfStack[2]) = FillTarget
                 /\ Pixel(data', width, TopOfStack[1], TopOfStack[2]) = ColorPixel(lastOp.color)
                 /\ Changed(data, data', width, height) = {TopOfStack}
                 /\ fillStack' = UnderTop \o Neighbours(TopOfStack[1], TopOfStack[2])
            ELSE /\ data' = data
                 /\ fillStack' = UnderTop]_vars

\* a fill has returned after it has written three pixels or more, each of
\* them popped again as a neighbour of the next
C21_Witness ==
    /\ FillReturned
    /\ Cardinality(MatchedSoFar) >= 3
    /\ MatchedSoFar = Changed(before, data, width, height)


(* C22, as claimed: during floodFill no coordinate outside the buffer is   *)
(* ever on the stack: with the seed on the canvas, every entry satisfies   *)
(* 0 <= x < W and 0 <= y < H.                                              *)
C22_AsClaimed ==
    (FillRunning /\ SeedInBuffer) =>
        \A k \in 1 .. Len(fillStack) : fillStack[k] \in Coords(width, height)

(* C22, as the code has it: lines 1238-1241 push the four neighbours of a  *)
(* filled pixel whatever they are, so coordinates one step outside the     *)
(* buffer are on the stack; the test of line 1219 discards such an entry   *)
(* when it is popped: that iteration reads and writes no pixel and pushes  *)
(* nothing.  No entry is further than one step outside.                    *)
C22_DiscardedWhenPopped ==
    /\ [](\A k \in 1 .. Len(fillStack) : fillStack[k] \in SeedsAround(width, height))
    /\ [][(fillPc = "loop" /\ fillStack # <<>> /\ TopOfStack \notin Coords(width, height)) =>
            /\ data' = data
            /\ fillMatched' = fillMatched
            /\ fillStack' = UnderTop]_vars

\* a fill from a seed on the canvas has written pixels and is about to pop
\* an entry that lies outside
C22_Witness ==
    /\ FillRunning
    /\ SeedInBuffer
    /\ MatchedSoFar # {}
    /\ fillStack # <<>>
    /\ TopOfStack \notin Coords(width, height)


---------------------------------------------------------------------------
(* Exact matching.                                                         *)

\* colours p and s differ in one channel only, by one
OneUnitApart(p, s) ==
    \E c \in 1 .. 4 :
        /\ Abs(p[c] - s[c]) = 1
        /\ \A e \in (1 .. 4) \ {c} : p[e] = s[e]

(* C23: flood-fill matching is exact on all four channels and never uses   *)
(* the masking tolerance: a pixel that differs from the seed colour T in   *)
(* any single channel, by as little as 1, alpha included, is not filled,   *)
(* and it is not crossed: a pixel of colour T that only a path through     *)
(* such pixels joins to the seed is not filled either.                     *)
C23_ExactMatch ==
    Filled =>
        /\ \A q \in Coords(width, height) :
              Old(q) # SeedColorBefore => New(q) = Old(q)
        /\ \A q \in Coords(width, height) \ Component(before, width, height, Seed) :
              New(q) = Old(q)
        /\ \A q \in Component(before, width, height, Seed) :
              New(q) = ColorPixel(lastOp.color)

\* a fill has changed its seed, next to the seed lies a pixel that differs
\* from T by one in alpha only and another that differs by one in r, g or b,
\* and a pixel of colour T beyond them is left as it was
C23_Witness ==
    /\ Filled
    /\ New(Seed) # Old(Seed)
    /\ \E q \in Coords(width, height) :
          /\ Adjacent4(q, Seed)
          /\ Old(q) = <<SeedColorBefore[1], SeedColorBefore[2], SeedColorBefore[3],
                        SeedColorBefore[4] - 1>>
    /\ \E q \in Coords(width, height) :
          /\ Adjacent4(q, Seed)
          /\ OneUnitApart(Old(q), SeedColorBefore)
          /\ Old(q)[4] = SeedColorBefore[4]
    /\ \E q \in Coords(width, height) :
          Old(q) = SeedColorBefore /\ New(q) = Old(q)


---------------------------------------------------------------------------
(* The magic wand, click after click.                                      *)

(* C24: removeColor is idempotent at a seed: after removeColor(x, y) the   *)
(* seed pixel has alpha 0, and removeColor(x, y) called again at once      *)
(* changes no pixel: the buffer after two calls is the buffer after one.   *)
C24_MaskIdempotent ==
    /\ [](Masked => New(<<lastOp.x, lastOp.y>>)[4] = 0)
    /\ [][(Masked /\ lastOp' = lastOp) => data' = data]_vars

\* the wand has been clicked on a pixel that an earlier click had made
\* transparent (its r, g and b are still those of a colour of the image),
\* and nothing has changed
C24_Witness ==
    /\ Masked
    /\ before = data
    /\ New(<<lastOp.x, lastOp.y>>) = <<Grey[1], Grey[2], Grey[3], 0>>

(* C25: over any sequence of removeColor calls transparency only grows: a  *)
(* call leaves a pixel's alpha as it is or sets it to 0, a pixel of alpha  *)
(* 0 stays at alpha 0, and no r, g or b value changes; so at any time a    *)
(* pixel's alpha is its original value or 0.                               *)
C25_TransparencyGrows ==
    [][\A i \in DOMAIN data :
          IF i % 4 = 3
          THEN /\ data'[i] \in {data[i], 0}
               /\ data[i] = 0 => data'[i] = 0
          ELSE data'[i] = data[i]]_vars

\* the last call has made a pixel transparent, a pixel an earlier call had
\* made transparent is still so with its r, g and b, and a pixel is opaque
C25_Witness ==
    /\ Masked
    /\ \E q \in Coords(width, height) : MadeTransparent(q)
    /\ \E q \in Coords(width, height) :
          Old(q)[4] = 0 /\ New(q) = Old(q) /\ Old(q) # Clear
    /\ \E q \in Coords(width, height) : New(q)[4] = 255


---------------------------------------------------------------------------
(* The rectangles of the sheet.                                            *)

\* the rectangle drawImage covers for the image at index i (from 0)
ImageRect(i) ==
    [left |-> DrawOf(i).dx, top |-> DrawOf(i).dy,
     right |-> DrawOf(i).dx + sheetImages[i + 1].width,
     bottom |-> DrawOf(i).dy + sheetImages[i + 1].height]

\* the cell of index i on a sheet of cells cellW wide and cellH high
CellOf(i, cellW, cellH) ==
    [left |-> (i % sheetColumns) * (cellW + sheetSpacing),
     top |-> (i \div sheetColumns) * (cellH + sheetSpacing),
     right |-> (i % sheetColumns) * (cellW + sheetSpacing) + cellW,
     bottom |-> (i \div sheetColumns) * (cellH + sheetSpacing) + cellH]
CellRect(i) == CellOf(i, WidestImage, HighestImage)

\* rectangle a lies inside rectangle b; rectangles a and b share no pixel
Inside(a, b) ==
    /\ b.left <= a.left /\ a.right <= b.right
    /\ b.top <= a.top /\ a.bottom <= b.bottom
Disjoint(a, b) ==
    \/ a.right <= b.left \/ b.right <= a.left
    \/ a.bottom <= b.top \/ b.bottom <= a.top

(* C26: for every non-empty list, C >= 1, S >= 0 and every alignment pair, *)
(* each image is drawn entirely inside the canvas and entirely inside its  *)
(* own cell, and the rectangles of two different images do not overlap.    *)
C26_InsideAndDisjoint ==
    (Assembled /\ N >= 1 /\ sheetColumns >= 1 /\ sheetSpacing >= 0) =>
        LET cellW == WidestImage
            cellH == HighestImage
            rect == [i \in 0 .. (N - 1) |-> ImageRect(i)]
            canvas == [left |-> 0, top |-> 0, right |-> generatedImage.width,
                       bottom |-> generatedImage.height]
        IN  /\ \A i \in 0 .. (N - 1) :
                  /\ Inside(rect[i], canvas)
                  /\ Inside(rect[i], CellOf(i, cellW, cellH))
            /\ \A i, j \in 0 .. (N - 1) :
                  i < j => Disjoint(rect[i], rect[j])

\* a sheet of several rows with no spacing, an image smaller than the cell
\* aligned right and bottom, and an image that fills its cell
C26_Witness ==
    /\ Assembled
    /\ N > sheetColumns
    /\ sheetColumns >= 2
    /\ sheetSpacing = 0
    /\ sheetHorizontalAlignment = "right"
    /\ sheetVerticalAlignment = "bottom"
    /\ \E i \in 0 .. (N - 1) :
          /\ sheetImages[i + 1].width < WidestImage
          /\ sheetImages[i + 1].height < HighestImage
          /\ ImageRect(i).right = CellRect(i).right
    /\ \E i \in 0 .. (N - 1) : ImageRect(i) = CellRect(i)


---------------------------------------------------------------------------
(* The asynchronous handlers of App, src/App.tsx 94-281.                   *)

\* enum AppMode, src/types.ts 1-9
Modes == {"TEXT_TO_SPRITE", "AI_EDIT", "ANIMATION", "SPRITE_SHEET",
          "STYLE_TRANSFER", "BACKGROUND_REMOVAL", "TILE_GENERATOR"}

\* the modes whose panel has a file input wired to handleFileUpload (lines
\* 605, 638, 664, 743 and 876); none of them is disabled by isGenerating
UploadModes == {"AI_EDIT", "BACKGROUND_REMOVAL", "ANIMATION", "STYLE_TRANSFER"}

\* the handler behind the action button of a mode's panel (lines 527, 586,
\* 618, 644 and 721)
HandlerOf(mode) ==
    CASE mode \in {"TEXT_TO_SPRITE", "TILE_GENERATOR"} -> "handleGenerate"
      [] mode = "AI_EDIT" -> "handleEdit"
      [] mode = "BACKGROUND_REMOVAL" -> "handleBackgroundRemoval"
      [] mode = "ANIMATION" -> "handleAnimate"
      [] OTHER -> "none"

\* the `disabled` of those buttons (lines 529, 588, 620, 646 and 723), the
\* prompt being typed in
ButtonDisabled(mode) ==
    \/ isGenerating
    \/ mode \notin {"TEXT_TO_SPRITE", "TILE_GENERATOR"} /\ generatedImage = NoImage

\* a handler that has been called and has not returned: its name, the await
\* it is at, the currentMode its closure holds, and for an upload the files
\* chosen and the data URLs read so far
Call(handler, pc, mode, files) ==
    [handler |-> handler, pc |-> pc, mode |-> mode, files |-> files, newImages |-> <<>>]

\* the sequence s without its element k
RemoveAt(s, k) == SubSeq(s, 1, k - 1) \o SubSeq(s, k + 1, Len(s))

\* values of generatedImage and of error
Generated == [kind |-> "generated"]
Uploaded == [kind |-> "file"]
ApiError == "API error"
KeyUpdated == "Da cap nhat quyen truy cap"
NoSprite == "Vui long tao hoac tai len sprite truoc"

sheetSettings == <<sheetImages, sheetColumns, sheetSpacing, sheetHorizontalAlignment,
                   sheetVerticalAlignment, sheetPc, lastSheetCall>>

\* a button of the sidebar, lines 378-426
SetCurrentMode ==
    /\ \E m \in Modes : m # currentMode /\ currentMode' = m
    /\ UNCHANGED <<isGenerating, generatedImage, error, inFlight>>
    /\ UNCHANGED sheetSettings
    /\ UNCHANGED editorVars

\* the action button of the current panel: handleGenerate, handleEdit,
\* handleAnimate or handleBackgroundRemoval up to its `await ensureApiKey()`
\* (lines 150-154, 173-177, 189-196, 212-216)
HandlerStart ==
    /\ HandlerOf(currentMode) # "none"
    /\ ~ButtonDisabled(currentMode)
    /\ Len(inFlight) < MaxRequests
    /\ isGenerating' = TRUE
    /\ error' = NoError
    /\ inFlight' = Append(inFlight, Call(HandlerOf(currentMode), "ensureApiKey",
                                         currentMode, <<>>))
    /\ UNCHANGED <<generatedImage, currentMode>>
    /\ UNCHANGED sheetSettings
    /\ UNCHANGED editorVars

\* handleAnimate called with no sprite: lines 190-193.  (The button of line
\* 723 is disabled then, so this is a call of the handler itself.)
AnimateWithoutSprite ==
    /\ generatedImage = NoImage
    /\ error # NoSprite
    /\ error' = NoSprite
    /\ UNCHANGED <<isGenerating, generatedImage, currentMode, inFlight>>
    /\ UNCHANGED sheetSettings
    /\ UNCHANGED editorVars

\* handleFileUpload with one file outside the sprite-sheet panel, up to
\* reader.readAsDataURL (lines 228-230, 249-253 and 271-280)
UploadStart ==
    /\ currentMode \in UploadModes
    /\ Len(inFlight) < MaxRequests
    /\ inFlight' = Append(inFlight, Call("handleFileUpload", "reading", currentMode,
                                         <<Uploaded>>))
    /\ UNCHANGED <<isGenerating, generatedImage, error, currentMode>>
    /\ UNCHANGED sheetSettings
    /\ UNCHANGED editorVars

\* reader.onloadend of such an upload: in style-transfer mode lines 255-258
\* up to `await ensureApiKey()`, else the setGeneratedImage of line 267 or 277
UploadLoaded ==
    /\ \E k \in 1 .. Len(inFlight) :
          /\ inFlight[k].handler = "handleFileUpload"
          /\ inFlight[k].pc = "reading"
          /\ inFlight[k].mode # "SPRITE_SHEET"
          /\ IF inFlight[k].mode = "STYLE_TRANSFER"
             THEN /\ isGenerating' = TRUE
                  /\ error' = NoError
                  /\ inFlight' = [inFlight EXCEPT ![k].pc = "ensureApiKey"]
                  /\ UNCHANGED generatedImage
             ELSE /\ generatedImage' = inFlight[k].files[1]
                  /\ inFlight' = RemoveAt(inFlight, k)
                  /\ UNCHANGED <<isGenerating, error>>
    /\ UNCHANGED currentMode
    /\ UNCHANGED sheetSettings
    /\ UNCHANGED editorVars

\* ensureApiKey resolves (lines 94-101) and the handler enters its try and
\* awaits the request
KeyOk ==
    /\ \E k \in 1 .. Len(inFlight) :
          /\ inFlight[k].pc = "ensureApiKey"
          /\ inFlight' = [inFlight EXCEPT ![k].pc = "request"]
    /\ UNCHANGED <<isGenerating, generatedImage, error, currentMode>>
    /\ UNCHANGED sheetSettings
    /\ UNCHANGED editorVars

\* ensureApiKey rejects: hasSelectedApiKey or openSelectKey of lines 96-98
\* rejects.  The await is before the try (lines 154, 177, 196, 216, 258), so
\* the handler's promise rejects and neither catch nor finally runs
KeyFails ==
    /\ \E k \in 1 .. Len(inFlight) :
          /\ inFlight[k].pc = "ensureApiKey"
          /\ inFlight' = RemoveAt(inFlight, k)
    /\ UNCHANGED <<isGenerating, generatedImage, error, currentMode>>
    /\ UNCHANGED sheetSettings
    /\ UNCHANGED editorVars

\* the request resolves: setGeneratedImage(result), then the finally
RequestSucceeds ==
    /\ \E k \in 1 .. Len(inFlight) :
          /\ inFlight[k].pc = "request"
          /\ inFlight' = RemoveAt(inFlight, k)
    /\ generatedImage' = Generated
    /\ isGenerating' = FALSE
    /\ UNCHANGED <<error, currentMode>>
    /\ UNCHANGED sheetSettings
    /\ UNCHANGED editorVars

\* the request rejects: the catch awaits handleApiError
RequestFails ==
    /\ \E k \in 1 .. Len(inFlight) :
          /\ inFlight[k].pc = "request"
          /\ inFlight' = [inFlight EXCEPT ![k].pc = "handleApiError"]
    /\ UNCHANGED <<isGenerating, generatedImage, error, currentMode>>
    /\ UNCHANGED sheetSettings
    /\ UNCHANGED editorVars

\* handleApiError returns (lines 103-127) with one of its two messages set,
\* then the finally
ErrorHandled ==
    /\ \E k \in 1 .. Len(inFlight) :
          /\ inFlight[k].pc = "handleApiError"
          /\ inFlight' = RemoveAt(inFlight, k)
    /\ \E message \in {ApiError, KeyUpdated} : error' = message
    /\ isGenerating' = FALSE
    /\ UNCHANGED <<generatedImage, currentMode>>
    /\ UNCHANGED sheetSettings
    /\ UNCHANGED editorVars

\* App after mounting (lines 51-91), the editor at rest
InitRequests ==
    /\ SheetIdle
    /\ EditorIdle
NextRequests ==
    \/ SetCurrentMode \/ HandlerStart \/ AnimateWithoutSprite \/ UploadStart \/ UploadLoaded
    \/ KeyOk \/ KeyFails \/ RequestSucceeds \/ RequestFails \/ ErrorHandled
SpecRequests == InitRequests /\ [][NextRequests]_vars

\* a handler has set isGenerating and has not yet returned or rejected
Generating(call) == call.pc \in {"ensureApiKey", "request", "handleApiError"}

(* C27, as claimed: every handler that sets isGenerating to true sets it    *)
(* back to false on every path, a failure of ensureApiKey included: once no *)
(* handler is left that has still to return, isGenerating is false.         *)
C27_AsClaimed ==
    (\A k \in 1 .. Len(inFlight) : ~Generating(inFlight[k])) => ~isGenerating

\* the first handler called has been left by the rejection of ensureApiKey:
\* nothing is in flight, no image and no error has been set, and
\* isGenerating is true
C27_Witness ==
    /\ inFlight = <<>>
    /\ generatedImage = NoImage
    /\ error = NoError
    /\ isGenerating

(* C28, as claimed: isGenerating is true whenever a generation request is  *)
(* still in flight, under every interleaving of the handlers.              *)
C28_AsClaimed ==
    (\E k \in 1 .. Len(inFlight) : inFlight[k].pc = "request") => isGenerating

\* a request started by a button and one started by a style-transfer upload
\* are in flight together
C28_Witness ==
    /\ Len(inFlight) = 2
    /\ inFlight[1].handler = "handleGenerate"
    /\ inFlight[1].pc = "request"
    /\ inFlight[2].handler = "handleFileUpload"
    /\ inFlight[2].pc = "request"
    /\ isGenerating


---------------------------------------------------------------------------
(* The image list of the sprite-sheet panel, src/App.tsx 228-248, 283-291. *)

\* the files the user can choose: two images, and one whose read does not
\* give a string (reader.result is null after a failed read)
GoodFiles == {"a.png", "b.png"}
FilePool == GoodFiles \cup {"unreadable"}

\* reader.result for file f when it is a string (line 241)
ImageOf(f) == [kind |-> "file", name |-> f]

\* handleFileUpload called in the sprite-sheet panel with files: the loop
\* variable i, the local newImages, and sheetImages as the closure of the
\* call holds it
SheetUpload(files) ==
    [handler |-> "handleFileUpload", pc |-> "reading", mode |-> "SPRITE_SHEET",
     files |-> files, newImages |-> <<>>, i |-> 0, seen |-> sheetImages]

\* the number of files still to be delivered by the uploads in flight
RECURSIVE Awaited(_)
Awaited(calls) ==
    IF calls = <<>> THEN 0
    ELSE Len(calls[1].files) + Awaited(Tail(calls))

\* handleFileUpload in the sprite-sheet panel up to the first await (lines
\* 228-238); the input of line 743 takes several files
SheetUploadStart ==
    /\ currentMode = "SPRITE_SHEET"
    /\ Len(inFlight) < MaxUploads
    /\ \E files \in SeqsUpTo(FilePool, MaxFiles) \ {<<>>} :
          /\ Len(sheetImages) + Awaited(inFlight) + Len(files) <= MaxListed
          /\ inFlight' = Append(inFlight, SheetUpload(files))
    /\ UNCHANGED <<sheetImages, sheetColumns, sheetSpacing, sheetHorizontalAlignment,
                   sheetVerticalAlignment, isGenerating, sheetPc, generatedImage,
                   error, lastSheetCall, currentMode>>
    /\ UNCHANGED editorVars

\* one turn of the loop of lines 235-247: onloadend of the file at index i
SheetUploadRead ==
    /\ \E k \in 1 .. Len(inFlight) :
          LET call == inFlight[k]
          IN  /\ call.mode = "SPRITE_SHEET"
              /\ call.i < Len(call.files)
              /\ inFlight' =
                    [inFlight EXCEPT ![k] =
                        [call EXCEPT !.i = call.i + 1,
                                     !.newImages =
                                         IF call.files[call.i + 1] \in GoodFiles
                                         THEN Append(call.newImages,
                                                     ImageOf(call.files[call.i + 1]))
                                         ELSE call.newImages]]
    /\ UNCHANGED <<sheetImages, sheetColumns, sheetSpacing, sheetHorizontalAlignment,
                   sheetVerticalAlignment, isGenerating, sheetPc, generatedImage,
                   error, lastSheetCall, currentMode>>
    /\ UNCHANGED editorVars

\* a variant of SheetUploadFinish: the new images are appended to the list
\* as the call saw it when it started
SheetUploadFinish_StaleList ==
    /\ \E k \in 1 .. Len(inFlight) :
          /\ inFlight[k].mode = "SPRITE_SHEET"
          /\ inFlight[k].i = Len(inFlight[k].files)
          /\ sheetImages' = inFlight[k].seen \o inFlight[k].newImages
          /\ inFlight' = RemoveAt(inFlight, k)
    /\ UNCHANGED <<sheetColumns, sheetSpacing, sheetHorizontalAlignment,
                   sheetVerticalAlignment, isGenerating, sheetPc, generatedImage,
                   error, lastSheetCall, currentMode>>
    /\ UNCHANGED editorVars

\* line 248: setSheetImages(prev => [...prev, ...newImages]) once every file
\* has been read
SheetUploadFinish ==
    /\ \E k \in 1 .. Len(inFlight) :
          /\ inFlight[k].mode = "SPRITE_SHEET"
          /\ inFlight[k].i = Len(inFlight[k].files)
          /\ sheetImages' = sheetImages \o inFlight[k].newImages
          /\ inFlight' = RemoveAt(inFlight, k)
    /\ UNCHANGED <<sheetColumns, sheetSpacing, sheetHorizontalAlignment,
                   sheetVerticalAlignment, isGenerating, sheetPc, generatedImage,
                   error, lastSheetCall, currentMode>>
    /\ UNCHANGED editorVars

\* handleAddCurrentToSheet, lines 283-287
AddCurrentToSheet ==
    /\ generatedImage # NoImage
    /\ Len(sheetImages) + Awaited(inFlight) < MaxListed
    /\ sheetImages' = Append(sheetImages, generatedImage)
    /\ UNCHANGED <<sheetColumns, sheetSpacing, sheetHorizontalAlignment,
                   sheetVerticalAlignment, isGenerating, sheetPc, generatedImage,
                   error, lastSheetCall, currentMode, inFlight>>
    /\ UNCHANGED editorVars

\* handleRemoveFromSheet(index), lines 289-291: filter((_, i) => i !== index)
RemoveFromSheet ==
    /\ \E index \in 0 .. (Len(sheetImages) - 1) :
          sheetImages' = RemoveAt(sheetImages, index + 1)
    /\ UNCHANGED <<sheetColumns, sheetSpacing, sheetHorizontalAlignment,
                   sheetVerticalAlignment, isGenerating, sheetPc, generatedImage,
                   error, lastSheetCall, currentMode, inFlight>>
    /\ UNCHANGED editorVars

\* the sprite-sheet panel with an empty list, a sprite generated or not
InitUploads ==
    /\ sheetImages = <<>>
    /\ sheetColumns = 4
    /\ sheetSpacing = 0
    /\ sheetHorizontalAlignment = "center"
    /\ sheetVerticalAlignment = "bottom"
    /\ isGenerating = FALSE
    /\ sheetPc = "idle"
    /\ generatedImage \in {NoImage, Generated}
    /\ error = NoError
    /\ lastSheetCall = "none"
    /\ currentMode = "SPRITE_SHEET"
    /\ inFlight = <<>>
    /\ EditorIdle
NextUploads ==
    \/ SheetUploadStart \/ SheetUploadRead \/ SheetUploadFinish
    \/ AddCurrentToSheet \/ RemoveFromSheet
SpecUploads == InitUploads /\ [][NextUploads]_vars

\* the images the files give, in file order, the unreadable ones left out
RECURSIVE Readable(_)
Readable(files) ==
    IF files = <<>> THEN <<>>
    ELSE (IF files[1] \in GoodFiles THEN <<ImageOf(files[1])>> ELSE <<>>)
         \o Readable(Tail(files))

(* C29: the sprite-sheet image list loses no update under interleaving.    *)
(* The step that completes an upload appends the images of its files, in   *)
(* file order, at the end of the list as it is at that moment, adds and    *)
(* removes made while the files were being read included; any other step   *)
(* that changes the list appends the current image at the end, or removes  *)
(* exactly the element at one index and keeps the order of the rest.       *)
C29_NoLostUpdate ==
    [][IF Len(inFlight') < Len(inFlight)
       THEN \E k \in 1 .. Len(inFlight) :
               /\ inFlight' = RemoveAt(inFlight, k)
               /\ sheetImages' = sheetImages \o Readable(inFlight[k].files)
       ELSE \/ sheetImages' = sheetImages
            \/ sheetImages' = sheetImages \o <<generatedImage>>
            \/ \E index \in 0 .. (Len(sheetImages) - 1) :
                  /\ Len(sheetImages') = Len(sheetImages) - 1
                  /\ \A j \in 0 .. (Len(sheetImages') - 1) :
                        sheetImages'[j + 1] =
                            sheetImages[(IF j < index THEN j ELSE j + 1) + 1]]_vars

\* an upload has read all its files and is about to append them, the list
\* having changed since the upload started: an image added since is in it
\* and the list is not an extension of the one the call saw
C29_Witness ==
    \E k \in 1 .. Len(inFlight) :
        /\ inFlight[k].mode = "SPRITE_SHEET"
        /\ inFlight[k].i = Len(inFlight[k].files)
        /\ inFlight[k].newImages # <<>>
        /\ inFlight[k].seen # <<>>
        /\ sheetImages # <<>>
        /\ sheetImages[Len(sheetImages)] = Generated
        /\ sheetImages[1] # inFlight[k].seen[1]


---------------------------------------------------------------------------
(* The pen and the eraser, src/App.tsx 1248-1277.                          *)

Tools == {"pen", "eraser", "magic-wand", "fill-bucket"}
PenPalette == {Clear, Grey}

\* ctx.fillStyle = color; ctx.fillRect(x, y, 1, 1) (lines 1256-1257): the
\* opaque colour replaces the pixel; outside the canvas nothing is drawn
FillRect(d, w, h, x, y, hex) ==
    IF OutOfBounds(x, y, w, h) THEN d
    ELSE LET c == hexToRgb(hex)
             pos == (y * w + x) * 4
         IN  Write(Write(Write(Write(d, pos, c.r), pos + 1, c.g), pos + 2, c.b),
                   pos + 3, 255)

\* ctx.clearRect(x, y, 1, 1) (line 1259): the pixel becomes transparent black
ClearRect(d, w, h, x, y) ==
    IF OutOfBounds(x, y, w, h) THEN d
    ELSE LET pos == (y * w + x) * 4
         IN  Write(Write(Write(Write(d, pos, 0), pos + 1, 0), pos + 2, 0), pos + 3, 0)

\* draw(e), lines 1248-1261, the event being at pixel (x, y); drawing is the
\* isDrawing of the render whose closure the function belongs to
draw(d, w, h, drawing, currentTool, x, y, hex) ==
    IF ~drawing \/ currentTool = "magic-wand" \/ currentTool = "fill-bucket" THEN d
    ELSE IF currentTool = "pen" THEN FillRect(d, w, h, x, y, hex)
    ELSE IF currentTool = "eraser" THEN ClearRect(d, w, h, x, y)
    ELSE d

\* the tool buttons, lines 1298-1319
SetTool ==
    /\ \E t \in Tools : t # tool /\ tool' = t
    /\ UNCHANGED <<width, height, data, color, before, lastOp, fillStack, fillPc,
                   fillMatched, isDrawing>>
    /\ UNCHANGED sheetVars

\* the event handler that ran last, with the state its closure held
MouseEvent(op, x, y) ==
    [op |-> op, x |-> x, y |-> y, tool |-> tool, color |-> color,
     wasDrawing |-> isDrawing]

\* handleMouseDown, lines 1263-1273. setIsDrawing(true) takes effect with
\* the next render; the draw(e) of line 1271 is the function of the current
\* render and reads the isDrawing of that render
MouseDown ==
    /\ \E xy \in Coords(width, height) :
          /\ lastOp' = MouseEvent("mouseDown", xy[1], xy[2])
          /\ IF tool = "magic-wand"
             THEN /\ data' = removeColor(data, width, height, xy[1], xy[2])
                  /\ UNCHANGED isDrawing
             ELSE IF tool = "fill-bucket"
             THEN /\ data' = floodFill(data, width, height, xy[1], xy[2], color)
                  /\ UNCHANGED isDrawing
             ELSE /\ isDrawing' = TRUE
                  /\ data' = draw(data, width, height, isDrawing, tool, xy[1], xy[2], color)
    /\ before' = data
    /\ UNCHANGED <<width, height, color, fillStack, fillPc, fillMatched, tool>>
    /\ UNCHANGED sheetVars

\* onMouseMove={draw}, line 1376
MouseMove ==
    /\ \E xy \in Coords(width, height) :
          /\ lastOp' = MouseEvent("mouseMove", xy[1], xy[2])
          /\ data' = draw(data, width, height, isDrawing, tool, xy[1], xy[2], color)
    /\ before' = data
    /\ UNCHANGED <<width, height, color, fillStack, fillPc, fillMatched, tool, isDrawing>>
    /\ UNCHANGED sheetVars

\* handleMouseUp, lines 1275-1277, on mouse-up and on mouse-leave
MouseUp ==
    /\ isDrawing
    /\ isDrawing' = FALSE
    /\ UNCHANGED <<width, height, data, color, before, lastOp, fillStack, fillPc,
                   fillMatched, tool>>
    /\ UNCHANGED sheetVars

InitPen == tool = "pen" /\ EditorInit(MaxPenPixels, MaxPenSide, PenPalette) /\ SheetIdle
NextPen == SetTool \/ SetColor \/ MouseDown \/ MouseMove \/ MouseUp
SpecPen == InitPen /\ [][NextPen]_vars

\* the last event was a mouse-down, or a mouse-move, at pixel (lastOp.x, lastOp.y)
MouseWentDown == lastOp.op = "mouseDown"
MouseMoved == lastOp.op = "mouseMove"

(* C30, as claimed: with the pen selected and isDrawing false, a mouse-down *)
(* at pixel (x, y) paints that pixel with the current colour in that same   *)
(* event; with the magic wand or the fill-bucket a mouse-down does not set  *)
(* isDrawing and a mouse-move changes no pixel.                             *)
C30_AsClaimed ==
    /\ (MouseWentDown /\ lastOp.tool = "pen" /\ ~lastOp.wasDrawing) =>
           New(<<lastOp.x, lastOp.y>>) = ColorPixel(lastOp.color)
    /\ (MouseWentDown /\ lastOp.tool \in {"magic-wand", "fill-bucket"}
           /\ ~lastOp.wasDrawing) => ~isDrawing
    /\ (MouseMoved /\ lastOp.tool \in {"magic-wand", "fill-bucket"}) =>
           data = before

\* the pen has gone down with isDrawing false on a pixel of another colour:
\* isDrawing is now true and no pixel has changed
C30_Witness ==
    /\ MouseWentDown
    /\ lastOp.tool = "pen"
    /\ ~lastOp.wasDrawing
    /\ isDrawing
    /\ data = before
    /\ New(<<lastOp.x, lastOp.y>>) # ColorPixel(lastOp.color)

=============================================================================
